---- MODULE Spec2Model ----
(***************************************************************************)
(* Technical-indicator engine of the option-chain dashboard.               *)
(*                                                                         *)
(* Numbers.  A JavaScript number is modelled as a pair <<n, d>>:           *)
(*   d > 0   the finite value n/d, in lowest terms (exact arithmetic in    *)
(*           place of IEEE-754 rounding; signed zero is not distinguished) *)
(*   <<0,0>> NaN,  <<1,0>> +Infinity,  <<-1,0>> -Infinity                  *)
(*   <<0,-1>> null (the "absent" marker pushed into the output arrays)     *)
(*   <<0,-2>> undefined (a field the sample does not carry)                *)
(* Arrays are sequences; At(s, i) reads the 0-based index i of the source. *)
(***************************************************************************)
EXTENDS Integers, Sequences, FiniteSets, TLC

VARIABLES
  response,           \* the responses in flight to the container, oldest first
  data,               \* the container's `data`: the samples of the last response
  priceData,          \* the container's priceData, bound to its indicator components
  dates,              \* the container's chartDates, bound to the components as `dates`
  period,             \* @Input period / length of the component
  fastPeriod,         \* @Input fastPeriod of ChartMacdComponent
  slowPeriod,         \* @Input slowPeriod of ChartMacdComponent
  signalPeriod,       \* @Input signalPeriod of ChartMacdComponent
  calculated,         \* the computations that have run on these inputs
  rsiData,            \* ChartRsiComponent.rsiData
  rsiAvgLoss,         \* the local avgLoss of calculateRSI at each push
  dmiData,            \* ChartDmiComponent.dmiData
  putDmiData,         \* ChartPricePutComponent.dmiData
  macdData,           \* ChartMacdComponent.macdData
  bollingerBands,     \* ChartBollingerKeltnerComponent.createChart: bollingerBands
  keltnerChannels,    \* ChartBollingerKeltnerComponent.createChart: keltnerChannels
  ttmSqueezeData,     \* ChartTtmSqueezeComponent.ttmSqueezeData
  c2TtmSqueezeData,   \* ChartPriceContainer2Component.ttmSqueezeData
  swingPoints,        \* the local swingPoints of calculateDemandSupplyZones
  demandSupplyZones,  \* ChartPriceContainer2Component.demandSupplyZones
  selectedSymbol,     \* MainPageComponent.selectedSymbol (0 is null)
  selectedExpiration, \* MainPageComponent.selectedExpiration (0 is null)
  selectedDatapoint,  \* MainPageComponent.selectedDatapoint ("null" is null)
  expirations,        \* MainPageComponent.expirations, the options of the dropdown
  optionChainData,    \* MainPageComponent.optionChainData (<<>> is null)
  chartLoadTrigger,   \* MainPageComponent.chartLoadTrigger, bound to the charts' loadTrigger
  loadingExpirations, \* MainPageComponent.loadingExpirations
  loadingData,        \* MainPageComponent.loadingData
  expirationRequests, \* the symbols of the getExpirations requests without a response yet
  dataTimers,         \* the pending timeouts of loadOptionChainData
  chartTimers,        \* the pending setTimeout(() => this.loadData(), 0) of the charts
  loadInfoCalls,      \* the invocations of onLoadInfo that passed its test
  loadsStarted,       \* the invocations of loadData of the displayed charts
  cleared             \* optionChainData was set to null and no expiration was chosen since

inputVars == <<response, data, priceData, dates, period, fastPeriod, slowPeriod, signalPeriod>>
rsiVars == <<rsiData, rsiAvgLoss>>
bandVars == <<bollingerBands, keltnerChannels>>
zoneVars == <<swingPoints, demandSupplyZones>>
mainVars == <<selectedSymbol, selectedExpiration, selectedDatapoint, expirations,
              optionChainData, chartLoadTrigger, loadingExpirations, loadingData,
              expirationRequests, dataTimers, chartTimers, loadInfoCalls,
              loadsStarted, cleared>>

vars == <<inputVars, calculated, rsiVars, dmiData, putDmiData, macdData, bandVars,
          ttmSqueezeData, c2TtmSqueezeData, zoneVars, mainVars>>

(* ---------------- bounds of the explored inputs ---------------- *)
MaxLen == 5       \* longest price series handed to an indicator
MaxPrice == 3     \* prices are 1..MaxPrice
MaxPeriod == 3    \* periods are 1..MaxPeriod
MaxSamples == 3   \* longest response handed to the aggregation
MaxDate == 2      \* date keys of the samples are 1..MaxDate
ZoneLen == 17     \* length of the series handed to the zone detector

(* ---------------- JavaScript numbers ---------------- *)
Null == <<0, -1>>
Undefined == <<0, -2>>
NaN == <<0, 0>>
PosInf == <<1, 0>>
NegInf == <<-1, 0>>

IsNull(x) == x[2] = -1
IsNaN(x) == x = NaN
IsFinite(x) == x[2] > 0
IsInfinite(x) == x[2] = 0 /\ x[1] # 0

AbsInt(n) == IF n < 0 THEN -n ELSE n

RECURSIVE GCD(_, _)
GCD(a, b) == IF b = 0 THEN a ELSE GCD(b, a % b)

SignInt(n) == IF n > 0 THEN 1 ELSE IF n < 0 THEN -1 ELSE 0

\* the finite value n/d (d # 0) in lowest terms with a positive denominator
Rat(n, d) ==
  LET g == GCD(AbsInt(n), AbsInt(d))
      s == IF d < 0 THEN -1 ELSE 1
  IN  <<(s * n) \div g, (s * d) \div g>>

Num(n) == <<n, 1>>
Zero == Num(0)
One == Num(1)
Hundred == Num(100)

Sign(x) == SignInt(x[1])

JNeg(x) == IF IsNaN(x) THEN NaN ELSE <<-x[1], x[2]>>

JAbs(x) == IF IsNaN(x) THEN NaN ELSE <<AbsInt(x[1]), x[2]>>

JAdd(a, b) ==
  IF IsNaN(a) \/ IsNaN(b) THEN NaN
  ELSE IF IsInfinite(a) /\ IsInfinite(b) THEN (IF a = b THEN a ELSE NaN)
  ELSE IF IsInfinite(a) THEN a
  ELSE IF IsInfinite(b) THEN b
  ELSE Rat(a[1] * b[2] + b[1] * a[2], a[2] * b[2])

JSub(a, b) == JAdd(a, JNeg(b))

JMul(a, b) ==
  IF IsNaN(a) \/ IsNaN(b) THEN NaN
  ELSE IF IsInfinite(a) \/ IsInfinite(b)
       THEN (IF Sign(a) * Sign(b) = 0 THEN NaN ELSE <<Sign(a) * Sign(b), 0>>)
  ELSE Rat(a[1] * b[1], a[2] * b[2])

JDiv(a, b) ==
  IF IsNaN(a) \/ IsNaN(b) THEN NaN
  ELSE IF IsInfinite(a) /\ IsInfinite(b) THEN NaN
  ELSE IF IsInfinite(a) THEN <<Sign(a) * (IF Sign(b) < 0 THEN -1 ELSE 1), 0>>
  ELSE IF IsInfinite(b) THEN Zero
  ELSE IF b[1] = 0 THEN (IF a[1] = 0 THEN NaN ELSE <<Sign(a), 0>>)
  ELSE Rat(a[1] * b[2], a[2] * b[1])

\* a < b of the source (false whenever an operand is NaN)
JLt(a, b) ==
  IF IsNaN(a) \/ IsNaN(b) THEN FALSE
  ELSE IF IsInfinite(a) \/ IsInfinite(b)
       THEN (IF a = b THEN FALSE
             ELSE IF a = NegInf \/ b = PosInf THEN TRUE ELSE FALSE)
  ELSE a[1] * b[2] < b[1] * a[2]

JGt(a, b) == JLt(b, a)

\* a === b on two numbers (NaN is equal to nothing)
JEq(a, b) == ~IsNaN(a) /\ ~IsNaN(b) /\ a = b

JLe(a, b) == JLt(a, b) \/ JEq(a, b)

JGe(a, b) == JLe(b, a)

(* ---------------- arrays ---------------- *)
At(s, i) == s[i + 1]

RECURSIVE SumSeq(_)
SumSeq(s) == IF s = <<>> THEN Zero ELSE JAdd(SumSeq(SubSeq(s, 1, Len(s) - 1)), s[Len(s)])

\* values.slice(from, to): 0-based, `to` exclusive
Slice(s, from, to) == SubSeq(s, from + 1, to)

NullSeq(n) == [i \in 1..n |-> Null]

(* ---------------- ChartRsiComponent ---------------- *)
\* gains[k] and losses[k] (0-based k) come from prices[k+1] - prices[k]
Gains(prices) ==
  [k \in 1..(Len(prices) - 1) |->
     LET change == JSub(prices[k + 1], prices[k])
     IN  IF JGt(change, Zero) THEN change ELSE Zero]

Losses(prices) ==
  [k \in 1..(Len(prices) - 1) |->
     LET change == JSub(prices[k + 1], prices[k])
     IN  IF JLt(change, Zero) THEN JAbs(change) ELSE Zero]

RsiNoGuard(avgGain, avgLoss) ==
  JSub(Hundred, JDiv(Hundred, JAdd(One, JDiv(avgGain, avgLoss))))

\* the value pushed for one position
RsiValue(avgGain, avgLoss) ==
  IF JEq(avgLoss, Zero) THEN Hundred
  ELSE JSub(Hundred, JDiv(Hundred, JAdd(One, JDiv(avgGain, avgLoss))))

\* the loop `for (let i = period + 1; i < prices.length; i++)`
RECURSIVE RsiLoop(_, _, _, _, _, _, _)
RsiLoop(n, p, gains, losses, i, avg, out) ==
  IF i >= n THEN out
  ELSE LET avgGain == JDiv(JAdd(JMul(avg.gain, Num(p - 1)), At(gains, i - 1)), Num(p))
           avgLoss == JDiv(JAdd(JMul(avg.loss, Num(p - 1)), At(losses, i - 1)), Num(p))
       IN  RsiLoop(n, p, gains, losses, i + 1,
                   [gain |-> avgGain, loss |-> avgLoss],
                   [rsi |-> Append(out.rsi, RsiValue(avgGain, avgLoss)),
                    avgLoss |-> Append(out.avgLoss, avgLoss)])

\* calculateRSI: the array it leaves in rsiData, and beside it the avgLoss
\* that was current when each entry was pushed (null where null was pushed)
CalculateRSIResult(prices, p) ==
  IF Len(prices) < p + 1
  THEN [rsi |-> NullSeq(Len(prices)), avgLoss |-> NullSeq(Len(prices))]
  ELSE LET gains == Gains(prices)
           losses == Losses(prices)
           avgGain == JDiv(SumSeq(Slice(gains, 0, p)), Num(p))
           avgLoss == JDiv(SumSeq(Slice(losses, 0, p)), Num(p))
       IN  RsiLoop(Len(prices), p, gains, losses, p + 1,
                   [gain |-> avgGain, loss |-> avgLoss],
                   [rsi |-> <<Null, RsiValue(avgGain, avgLoss)>>,
                    avgLoss |-> <<Null, avgLoss>>])

(* ---------------- ChartDmiComponent ---------------- *)
EmptyDmi == [plusDI |-> <<>>, minusDI |-> <<>>, adx |-> <<>>]

DmiTrueRanges(prices) ==
  [k \in 1..(Len(prices) - 1) |-> JAbs(JSub(prices[k + 1], prices[k]))]

DmiPlusDM(prices) ==
  [k \in 1..(Len(prices) - 1) |->
     LET upMove == JSub(prices[k + 1], prices[k])
         downMove == JSub(prices[k], prices[k + 1])
     IN  IF JGt(upMove, downMove) /\ JGt(upMove, Zero) THEN upMove ELSE Zero]

DmiMinusDM(prices) ==
  [k \in 1..(Len(prices) - 1) |->
     LET upMove == JSub(prices[k + 1], prices[k])
         downMove == JSub(prices[k], prices[k + 1])
     IN  IF JGt(upMove, downMove) /\ JGt(upMove, Zero) THEN Zero
         ELSE IF JGt(downMove, upMove) /\ JGt(downMove, Zero) THEN downMove
         ELSE Zero]

\* the loop `for (let i = period; i < values.length; i++)`
RECURSIVE WilderLoop(_, _, _, _)
WilderLoop(values, p, i, smoothed) ==
  IF i >= Len(values) THEN smoothed
  ELSE LET prevSmoothed == smoothed[Len(smoothed)]
           newSmoothed == JDiv(JAdd(JMul(prevSmoothed, Num(p - 1)), At(values, i)), Num(p))
       IN  WilderLoop(values, p, i + 1, Append(smoothed, newSmoothed))

wildersSmoothing(values, p) ==
  IF Len(values) < p THEN <<>>
  ELSE WilderLoop(values, p, p, <<JDiv(SumSeq(Slice(values, 0, p)), Num(p))>>)

DiStepNoGuard(tr, sPlus, sMinus) ==
  LET plusDI == JMul(JDiv(sPlus, tr), Hundred)
      minusDI == JMul(JDiv(sMinus, tr), Hundred)
      diSum == JAdd(plusDI, minusDI)
  IN  [plusDI |-> plusDI, minusDI |-> minusDI,
       dx |-> JMul(JDiv(JAbs(JSub(plusDI, minusDI)), diSum), Hundred)]

\* one pass of the loop that fills plusDIValues, minusDIValues and dxValues
DiStep(tr, sPlus, sMinus) ==
  IF JEq(tr, Zero) THEN [plusDI |-> Zero, minusDI |-> Zero, dx |-> Zero]
  ELSE LET plusDI == JMul(JDiv(sPlus, tr), Hundred)
           minusDI == JMul(JDiv(sMinus, tr), Hundred)
           diSum == JAdd(plusDI, minusDI)
       IN  [plusDI |-> plusDI, minusDI |-> minusDI,
            dx |-> IF JEq(diSum, Zero) THEN Zero
                   ELSE JMul(JDiv(JAbs(JSub(plusDI, minusDI)), diSum), Hundred)]

DmiSmoothedTR(prices, p) == wildersSmoothing(DmiTrueRanges(prices), p)

DiSteps(prices, p) ==
  LET smoothedTR == DmiSmoothedTR(prices, p)
      smoothedPlusDM == wildersSmoothing(DmiPlusDM(prices), p)
      smoothedMinusDM == wildersSmoothing(DmiMinusDM(prices), p)
  IN  [k \in 1..Len(smoothedTR) |-> DiStep(smoothedTR[k], smoothedPlusDM[k], smoothedMinusDM[k])]

DxValues(prices, p) == LET st == DiSteps(prices, p) IN [k \in 1..Len(st) |-> st[k].dx]

\* the adx entry pushed at output index i
DmiAdxAt(i, p, diIndex, adxValues) ==
  IF i < p * 2 - 1 \/ diIndex >= Len(adxValues) THEN Null
  ELSE LET adxIndex == diIndex - (p - 1)
       IN  IF adxIndex >= 0 /\ adxIndex < Len(adxValues) THEN At(adxValues, adxIndex) ELSE Null

\* ChartDmiComponent.calculateDMI: the value it leaves in dmiData
calculateDMI(prices, p) ==
  IF Len(prices) < p + 1
  THEN [plusDI |-> NullSeq(Len(prices)), minusDI |-> NullSeq(Len(prices)), adx |-> NullSeq(Len(prices))]
  ELSE LET st == DiSteps(prices, p)
           adxValues == wildersSmoothing([k \in 1..Len(st) |-> st[k].dx], p)
           Defined(i) == i >= p /\ i - p < Len(st)
       IN  [plusDI |-> [k \in 1..Len(prices) |->
                          IF Defined(k - 1) THEN At(st, k - 1 - p).plusDI ELSE Null],
            minusDI |-> [k \in 1..Len(prices) |->
                          IF Defined(k - 1) THEN At(st, k - 1 - p).minusDI ELSE Null],
            adx |-> [k \in 1..Len(prices) |->
                          IF Defined(k - 1) THEN DmiAdxAt(k - 1, p, k - 1 - p, adxValues) ELSE Null]]

(* ---------------- ChartPricePutComponent: DMI ---------------- *)
JMax(a, b) == IF IsNaN(a) \/ IsNaN(b) THEN NaN ELSE IF JLt(a, b) THEN b ELSE a

MinInt(a, b) == IF a < b THEN a ELSE b

PutTrueRanges(prices) ==
  [k \in 1..(Len(prices) - 1) |->
     LET high == prices[k + 1]
         low == prices[k + 1]
         prevClose == prices[k]
     IN  JMax(JMax(JSub(high, low), JAbs(JSub(high, prevClose))), JAbs(JSub(low, prevClose)))]

calculateWilderSmoothing(values, p) ==
  LET m == MinInt(p, Len(values))
  IN  WilderLoop(values, p, p, <<JDiv(SumSeq(Slice(values, 0, m)), Num(m))>>)

\* Math.abs(plusDI - minusDI) / (plusDI + minusDI) * 100
PutDx(plusDI, minusDI) ==
  JMul(JDiv(JAbs(JSub(plusDI, minusDI)), JAdd(plusDI, minusDI)), Hundred)

NonNull(s) == SelectSeq(s, LAMBDA v : ~IsNull(v))

\* first ADX value: mean of the DX of the entries j in i-period+1..i
PutFirstAdx(i, p, plusDI, minusDI) ==
  LET js == {j \in (i - p + 1)..i :
               /\ j >= p /\ j < Len(plusDI)
               /\ ~IsNull(At(plusDI, j)) /\ ~IsNull(At(minusDI, j))}
      dxs == [k \in 1..(2 * p) |->
                LET j == i - p + k
                IN  IF j \in js THEN PutDx(At(plusDI, j), At(minusDI, j)) ELSE Zero]
      count == Cardinality(js)
  IN  IF count > 0 THEN JDiv(SumSeq(SubSeq(dxs, 1, p)), Num(count)) ELSE Null

\* the loop `for (let i = 0; i < prices.length; i++)` over the output index
RECURSIVE PutDmiLoop(_, _, _, _, _, _, _)
PutDmiLoop(n, p, sTR, sPlus, sMinus, i, out) ==
  IF i >= n THEN out
  ELSE IF i < p
  THEN PutDmiLoop(n, p, sTR, sPlus, sMinus, i + 1,
                  [plusDI |-> Append(out.plusDI, Null),
                   minusDI |-> Append(out.minusDI, Null),
                   adx |-> Append(out.adx, Null)])
  ELSE LET plusDI == JMul(JDiv(At(sPlus, i - p), At(sTR, i - p)), Hundred)
           minusDI == JMul(JDiv(At(sMinus, i - p), At(sTR, i - p)), Hundred)
           plusArr == Append(out.plusDI, plusDI)
           minusArr == Append(out.minusDI, minusDI)
           dx == PutDx(plusDI, minusDI)
           adxValues == NonNull(out.adx)
           adx == IF i < p * 2 - 1 THEN Null
                  ELSE IF Len(adxValues) = 0 THEN PutFirstAdx(i, p, plusArr, minusArr)
                  ELSE JDiv(JAdd(JMul(adxValues[Len(adxValues)], Num(p - 1)), dx), Num(p))
       IN  PutDmiLoop(n, p, sTR, sPlus, sMinus, i + 1,
                      [plusDI |-> plusArr, minusDI |-> minusArr, adx |-> Append(out.adx, adx)])

\* ChartPricePutComponent.calculateDMI: the value it leaves in dmiData
PutCalculateDMI(prices, p) ==
  IF Len(prices) < p + 1
  THEN [plusDI |-> NullSeq(Len(prices)), minusDI |-> NullSeq(Len(prices)), adx |-> NullSeq(Len(prices))]
  ELSE PutDmiLoop(Len(prices), p,
                  calculateWilderSmoothing(PutTrueRanges(prices), p),
                  calculateWilderSmoothing(DmiPlusDM(prices), p),
                  calculateWilderSmoothing(DmiMinusDM(prices), p),
                  0, EmptyDmi)

(* ---------------- ChartMacdComponent ---------------- *)
EmptyMacd == [macd |-> <<>>, signal |-> <<>>, histogram |-> <<>>]

\* the loop `for (let i = period; i < prices.length; i++)` of calculateEMA
RECURSIVE EmaLoop(_, _, _, _)
EmaLoop(prices, multiplier, i, ema) ==
  IF i >= Len(prices) THEN ema
  ELSE EmaLoop(prices, multiplier, i + 1,
               Append(ema, JAdd(JMul(At(prices, i), multiplier),
                                JMul(At(ema, i - 1), JSub(One, multiplier)))))

calculateEMASeedLast(prices, p) ==
  IF Len(prices) < p THEN NullSeq(Len(prices))
  ELSE EmaLoop(prices, JDiv(Num(2), Num(p + 1)), p,
               [k \in 1..p |-> IF k = p THEN At(prices, p - 1) ELSE Null])

\* ChartMacdComponent.calculateEMA
calculateEMA(prices, p) ==
  IF Len(prices) < p THEN NullSeq(Len(prices))
  ELSE EmaLoop(prices, JDiv(Num(2), Num(p + 1)), p,
               [k \in 1..p |-> IF k = p THEN JDiv(SumSeq(Slice(prices, 0, p)), Num(p)) ELSE Null])

AlignSignalFromStart(macdLine, signalLine, i, st) ==
  [k \in 1..Len(macdLine) |-> IF k <= Len(signalLine) THEN signalLine[k] ELSE Null]

\* alignedSignalLine: signalLine laid back onto the defined MACD positions
RECURSIVE AlignSignal(_, _, _, _)
AlignSignal(macdLine, signalLine, i, st) ==
  IF i >= Len(macdLine) THEN st.aligned
  ELSE IF ~IsNull(At(macdLine, i)) /\ st.signalIndex < Len(signalLine)
       THEN AlignSignal(macdLine, signalLine, i + 1,
                        [aligned |-> Append(st.aligned, At(signalLine, st.signalIndex)),
                         signalIndex |-> st.signalIndex + 1])
       ELSE AlignSignal(macdLine, signalLine, i + 1,
                        [aligned |-> Append(st.aligned, Null), signalIndex |-> st.signalIndex])

HistogramOfMacd(macdLine, alignedSignalLine) ==
  [k \in 1..Len(macdLine) |->
     IF ~IsNull(macdLine[k])
     THEN JSub(macdLine[k], IF IsNull(alignedSignalLine[k]) THEN Zero ELSE alignedSignalLine[k])
     ELSE Null]

\* the loop that fills `histogram`: MACD - signal where both are not null
Histogram(macdLine, alignedSignalLine) ==
  [k \in 1..Len(macdLine) |->
     IF ~IsNull(macdLine[k]) /\ ~IsNull(alignedSignalLine[k])
     THEN JSub(macdLine[k], alignedSignalLine[k]) ELSE Null]

calculateMACDFastGuard(prices, fast, slow, sig) ==
  LET fastEMA == calculateEMA(prices, fast)
  IN  [macd |-> fastEMA, signal |-> NullSeq(Len(prices)), histogram |-> NullSeq(Len(prices))]

\* ChartMacdComponent.calculateMACD: the value it leaves in macdData
calculateMACD(prices, fast, slow, sig) ==
  IF Len(prices) < slow
  THEN [macd |-> NullSeq(Len(prices)), signal |-> NullSeq(Len(prices)),
        histogram |-> NullSeq(Len(prices))]
  ELSE LET fastEMA == calculateEMA(prices, fast)
           slowEMA == calculateEMA(prices, slow)
           macdLine == [k \in 1..Len(prices) |->
                          IF ~IsNull(fastEMA[k]) /\ ~IsNull(slowEMA[k])
                          THEN JSub(fastEMA[k], slowEMA[k]) ELSE Null]
           signalLine == calculateEMA(NonNull(macdLine), sig)
           alignedSignalLine ==
             AlignSignal(macdLine, signalLine, 0, [aligned |-> <<>>, signalIndex |-> 0])
       IN  [macd |-> macdLine,
            signal |-> alignedSignalLine,
            histogram |-> Histogram(macdLine, alignedSignalLine)]

(* ---------------- ChartBollingerKeltnerComponent ---------------- *)
\* A band value that involves Math.sqrt is kept exact as <<a, b, r>>, the
\* number a + b * sqrt(r); <<Null, Zero, Zero>> is the null entry.
Surd(a, b, r) == <<a, b, r>>
SNull == <<Null, Zero, Zero>>
SIsNull(s) == IsNull(s[1])
SOfNum(x) == <<x, Zero, Zero>>

\* s < y for a surd s and a number y (false when NaN is involved)
SLtNum(s, y) ==
  LET d == JSub(y, s[1])
      lhs == JMul(JMul(s[2], s[2]), s[3])
      rhs == JMul(d, d)
  IN  IF IsNaN(d) \/ IsNaN(lhs) THEN FALSE
      ELSE IF Sign(s[2]) >= 0
           THEN JGt(d, Zero) /\ JLt(lhs, rhs)
           ELSE JGt(d, Zero) \/ JGt(lhs, rhs)

\* s > y for a surd s and a number y
SGtNum(s, y) ==
  LET d == JSub(y, s[1])
      lhs == JMul(JMul(s[2], s[2]), s[3])
      rhs == JMul(d, d)
  IN  IF IsNaN(d) \/ IsNaN(lhs) THEN FALSE
      ELSE IF Sign(s[2]) >= 0
           THEN JLt(d, Zero) \/ JGt(lhs, rhs)
           ELSE JLt(d, Zero) /\ JLt(lhs, rhs)

EmptyBands == [upperBand |-> <<>>, middleBand |-> <<>>, lowerBand |-> <<>>]

WindowFromStart(prices, p, i) == Slice(prices, 0, i + 1)

\* prices.slice(i - period + 1, i + 1)
Window(prices, p, i) == Slice(prices, i - p + 1, i + 1)

Sma(slice, p) == JDiv(SumSeq(slice), Num(p))

Variance(slice, p) ==
  LET sma == Sma(slice, p)
  IN  JDiv(SumSeq([k \in 1..Len(slice) |-> JMul(JSub(slice[k], sma), JSub(slice[k], sma))]),
           Num(p))

\* the mean of |slice[j] - slice[j-1]|, j = 1..slice.length-1
AvgTrueRange(slice) ==
  JDiv(SumSeq([j \in 1..(Len(slice) - 1) |-> JAbs(JSub(slice[j + 1], slice[j]))]),
       Num(Len(slice) - 1))

calculateBollingerBands(prices, p, standardDeviations) ==
  [upperBand |-> [k \in 1..Len(prices) |->
      IF k - 1 < p - 1 THEN SNull
      ELSE LET slice == Window(prices, p, k - 1)
           IN  Surd(Sma(slice, p), standardDeviations, Variance(slice, p))],
   middleBand |-> [k \in 1..Len(prices) |->
      IF k - 1 < p - 1 THEN SNull ELSE SOfNum(Sma(Window(prices, p, k - 1), p))],
   lowerBand |-> [k \in 1..Len(prices) |->
      IF k - 1 < p - 1 THEN SNull
      ELSE LET slice == Window(prices, p, k - 1)
           IN  Surd(Sma(slice, p), JNeg(standardDeviations), Variance(slice, p))]]

calculateKeltnerChannels(prices, p, multiplier) ==
  [upperBand |-> [k \in 1..Len(prices) |->
      IF k - 1 < p - 1 THEN Null
      ELSE LET slice == Window(prices, p, k - 1)
           IN  JAdd(Sma(slice, p), JMul(multiplier, AvgTrueRange(slice)))],
   middleBand |-> [k \in 1..Len(prices) |->
      IF k - 1 < p - 1 THEN Null ELSE Sma(Window(prices, p, k - 1), p)],
   lowerBand |-> [k \in 1..Len(prices) |->
      IF k - 1 < p - 1 THEN Null
      ELSE LET slice == Window(prices, p, k - 1)
           IN  JSub(Sma(slice, p), JMul(multiplier, AvgTrueRange(slice)))]]

(* ---------------- ChartTtmSqueezeComponent ---------------- *)
EmptyTtm == [upperBand |-> <<>>, lowerBand |-> <<>>, momentum |-> <<>>,
             squeeze |-> <<>>, histogram |-> <<>>, barColors |-> <<>>]

JMin(a, b) == IF IsNaN(a) \/ IsNaN(b) THEN NaN ELSE IF JLt(b, a) THEN b ELSE a

\* Math.max(...slice), Math.min(...slice)
RECURSIVE MaxOf(_)
MaxOf(s) == IF s = <<>> THEN NegInf ELSE JMax(MaxOf(SubSeq(s, 1, Len(s) - 1)), s[Len(s)])

RECURSIVE MinOf(_)
MinOf(s) == IF s = <<>> THEN PosInf ELSE JMin(MinOf(SubSeq(s, 1, Len(s) - 1)), s[Len(s)])

\* the regression sums over x = 0..n-1
RegSums(values) ==
  LET n == Len(values)
  IN  [sumX |-> SumSeq([k \in 1..n |-> Num(k - 1)]),
       sumY |-> SumSeq(values),
       sumXY |-> SumSeq([k \in 1..n |-> JMul(Num(k - 1), values[k])]),
       sumX2 |-> SumSeq([k \in 1..n |-> Num((k - 1) * (k - 1))])]

RegDenominatorOfOne(values) ==
  LET r == RegSums(values)
  IN  JSub(r.sumX2, JMul(r.sumX, r.sumX))

RegDenominator(values) ==
  LET r == RegSums(values)
  IN  JSub(JMul(Num(Len(values)), r.sumX2), JMul(r.sumX, r.sumX))

\* ChartPriceContainer2Component.linearRegression (no test of the denominator)
Container2LinearRegression(values) ==
  LET n == Len(values)
      r == RegSums(values)
      slope == JDiv(JSub(JMul(Num(n), r.sumXY), JMul(r.sumX, r.sumY)), RegDenominator(values))
      intercept == JDiv(JSub(r.sumY, JMul(slope, r.sumX)), Num(n))
  IN  IF n = 0 THEN Zero
      ELSE IF n = 1 THEN values[1]
      ELSE JAdd(intercept, JMul(slope, Num(n - 1)))

\* ChartTtmSqueezeComponent.linearRegression
linearRegression(values) ==
  LET n == Len(values)
      r == RegSums(values)
      denominator == RegDenominator(values)
      slope == JDiv(JSub(JMul(Num(n), r.sumXY), JMul(r.sumX, r.sumY)), denominator)
      intercept == JDiv(JSub(r.sumY, JMul(slope, r.sumX)), Num(n))
  IN  IF n = 0 THEN Zero
      ELSE IF n = 1 THEN values[1]
      ELSE IF JEq(denominator, Zero) THEN values[n]
      ELSE JAdd(intercept, JMul(slope, Num(n - 1)))

\* prices[k] - kMidpoint for the window ending at k
BaseValue(prices, p, k) ==
  LET kSlice == Window(prices, p, k)
      kSma == Sma(kSlice, p)
      kDonchianMid == JDiv(JAdd(MaxOf(kSlice), MinOf(kSlice)), Num(2))
      kMidpoint == JDiv(JAdd(kDonchianMid, kSma), Num(2))
  IN  JSub(At(prices, k), kMidpoint)

\* valSeries of position i: the base values of the k in i-period+1..i with k >= period-1
ValSeries(prices, p, i) ==
  LET first == IF i - p + 1 >= p - 1 THEN i - p + 1 ELSE p - 1
  IN  [j \in 1..(i - first + 1) |-> BaseValue(prices, p, first + j - 1)]

IsInSqueezeWeak(slice, p, kcMultiplier, bbMultiplier) ==
  LET sma == Sma(slice, p)
      atr == AvgTrueRange(slice)
      variance == Variance(slice, p)
  IN  /\ ~SGtNum(Surd(sma, bbMultiplier, variance), JAdd(sma, JMul(kcMultiplier, atr)))
      /\ ~SLtNum(Surd(sma, JNeg(bbMultiplier), variance), JSub(sma, JMul(kcMultiplier, atr)))

\* isInSqueeze = bbUpper < kcUpper && bbLower > kcLower
IsInSqueeze(slice, p, kcMultiplier, bbMultiplier) ==
  LET sma == Sma(slice, p)
      atr == AvgTrueRange(slice)
      variance == Variance(slice, p)
  IN  /\ SLtNum(Surd(sma, bbMultiplier, variance), JAdd(sma, JMul(kcMultiplier, atr)))
      /\ SGtNum(Surd(sma, JNeg(bbMultiplier), variance), JSub(sma, JMul(kcMultiplier, atr)))

\* second pass: the colour of bar i
BarColor(rawMomentum, i) ==
  LET currentMomentum == At(rawMomentum, i)
      prevMomentum == IF i > 0 THEN At(rawMomentum, i - 1) ELSE Null
      isPositive == JGe(currentMomentum, Zero)
      isIncreasing == IF ~IsNull(prevMomentum) THEN JGt(currentMomentum, prevMomentum) ELSE TRUE
  IN  IF IsNull(currentMomentum) THEN "rgba(128, 128, 128, 0.5)"
      ELSE IF isPositive THEN (IF isIncreasing THEN "#2196F3" ELSE "#00BCD4")
      ELSE (IF isIncreasing THEN "#FFEB3B" ELSE "#F44336")

\* calculateTTMSqueeze around the raw momentum of the component at hand
TtmSqueeze(prices, p, kcMultiplier, bbMultiplier, rawMomentum) ==
  LET n == Len(prices)
      kc == calculateKeltnerChannels(prices, p, kcMultiplier)
  IN  [upperBand |-> kc.upperBand,
       lowerBand |-> kc.lowerBand,
       momentum |-> rawMomentum,
       squeeze |-> [k \in 1..n |->
                      IF k - 1 < p - 1 THEN FALSE
                      ELSE IsInSqueeze(Window(prices, p, k - 1), p, kcMultiplier, bbMultiplier)],
       histogram |-> rawMomentum,
       barColors |-> [k \in 1..n |-> BarColor(rawMomentum, k - 1)]]

\* ChartTtmSqueezeComponent.calculateTTMSqueeze
calculateTTMSqueeze(prices, p, kcMultiplier, bbMultiplier) ==
  TtmSqueeze(prices, p, kcMultiplier, bbMultiplier,
             [k \in 1..Len(prices) |->
                IF k - 1 < p - 1 THEN Null ELSE linearRegression(ValSeries(prices, p, k - 1))])

\* ChartPriceContainer2Component.calculateTTMSqueeze
Container2CalculateTTMSqueeze(prices, p, kcMultiplier, bbMultiplier) ==
  TtmSqueeze(prices, p, kcMultiplier, bbMultiplier,
             [k \in 1..Len(prices) |->
                IF k - 1 < p - 1 THEN Null
                ELSE Container2LinearRegression(ValSeries(prices, p, k - 1))])

(* ---------------- series aggregation (groupDataByDate) ---------------- *)
\* A sample is [imported_date |-> d, underlying_price |-> v].  A date key is a
\* positive integer, in the order of the ISO date strings; 0 is the empty
\* string and -1 a missing field.  v is a number, Null or Undefined.
Truthy(date) == date > 0

\* the numeric value `+=` adds for a price
ToNumber(v) == IF IsNull(v) THEN Zero ELSE IF v = Undefined THEN NaN ELSE v

RetainsNoNull(item) ==
  Truthy(item.imported_date) /\ item.underlying_price # Undefined /\ ~IsNull(item.underlying_price)

\* if (item.imported_date && item.underlying_price !== undefined)
Retains(item) == Truthy(item.imported_date) /\ item.underlying_price # Undefined

EmptyGrouped == [keys |-> <<>>, val |-> <<>>]

\* the callback of data.forEach: keys holds the dates in insertion order,
\* val[i] the entry of keys[i]
GroupItem(grouped, item) ==
  LET date == item.imported_date
      known == \E k \in 1..Len(grouped.keys) : grouped.keys[k] = date
      opened == [keys |-> Append(grouped.keys, date),
                 val |-> Append(grouped.val, [avgPrice |-> Zero, count |-> 0])]
      g == IF known THEN grouped ELSE opened
      pos == CHOOSE k \in 1..Len(g.keys) : g.keys[k] = date
  IN  IF ~Retains(item) THEN grouped
      ELSE [g EXCEPT !.val[pos] =
              [avgPrice |-> JAdd(@.avgPrice, ToNumber(item.underlying_price)),
               count |-> @.count + 1]]

\* data.forEach(...): the callback applied to the items in order (the left
\* half of the items first, then the right half on its result)
RECURSIVE GroupLoop(_, _)
GroupLoop(items, grouped) ==
  IF items = <<>> THEN grouped
  ELSE IF Len(items) = 1 THEN GroupItem(grouped, items[1])
  ELSE LET mid == Len(items) \div 2
           left == GroupLoop(SubSeq(items, 1, mid), grouped)
       IN  IF left = left    \* the left half is evaluated before the right one
           THEN GroupLoop(SubSeq(items, mid + 1, Len(items)), left)
           ELSE grouped

GroupSumOnly(grouped) == grouped

\* Object.keys(grouped).forEach: avgPrice = avgPrice / count
GroupAverage(grouped) ==
  [grouped EXCEPT !.val = [k \in 1..Len(grouped.val) |->
     [avgPrice |-> JDiv(grouped.val[k].avgPrice, Num(grouped.val[k].count)),
      count |-> grouped.val[k].count]]]

groupDataByDate(items) == GroupAverage(GroupLoop(items, EmptyGrouped))

\* Object.keys(groupedData).sort(): ascending; the keys of an object are
\* distinct, so the k-th of them has exactly k - 1 keys below it
SortKeys(keys) ==
  LET all == {keys[k] : k \in 1..Len(keys)}
  IN  [k \in 1..Cardinality(all) |->
         CHOOSE x \in all : Cardinality({y \in all : y < x}) = k - 1]

\* dates.map(date => groupedData[date].avgPrice)
PricesOf(grouped, sorted) ==
  [k \in 1..Len(sorted) |->
     grouped.val[CHOOSE j \in 1..Len(grouped.keys) : grouped.keys[j] = sorted[k]].avgPrice]

(* ---------------- zone detector (calculateDemandSupplyZones) ---------------- *)
lookbackPeriod == 5
minZoneStrength == 2
MinZoneData == 10
MaxZones == 5
tolerance == Rat(2, 100)

EmptyZones == [demand |-> <<>>, supply |-> <<>>]

IsSwingHighWeak(prices, i) ==
  \A j \in (i - lookbackPeriod)..(i + lookbackPeriod) :
     j # i => ~JGt(At(prices, j), At(prices, i))

IsSwingLowWeak(prices, i) ==
  \A j \in (i - lookbackPeriod)..(i + lookbackPeriod) :
     j # i => ~JLt(At(prices, j), At(prices, i))

IsSwingHigh(prices, i) ==
  \A j \in (i - lookbackPeriod)..(i + lookbackPeriod) :
     j # i => ~JGe(At(prices, j), At(prices, i))

IsSwingLow(prices, i) ==
  \A j \in (i - lookbackPeriod)..(i + lookbackPeriod) :
     j # i => ~JLe(At(prices, j), At(prices, i))

\* the loop `for (let i = lookbackPeriod; i < prices.length - lookbackPeriod; i++)`:
\* the indices it visits, those at which it pushes, and what it pushes
SwingPointsOf(prices) ==
  LET visited == [k \in 1..(Len(prices) - 2 * lookbackPeriod) |-> lookbackPeriod + k - 1]
      pushed == SelectSeq(visited, LAMBDA i : IsSwingHigh(prices, i) \/ IsSwingLow(prices, i))
  IN  [k \in 1..Len(pushed) |->
         [index |-> pushed[k], price |-> At(prices, pushed[k]),
          type |-> IF IsSwingHigh(prices, pushed[k]) THEN "high" ELSE "low"]]

\* Math.abs(point.price - zone.price) / zone.price <= tolerance
NearZone(point, zone) ==
  JLe(JDiv(JAbs(JSub(point.price, zone.price)), zone.price), tolerance)

TouchRecentre(zone, point, ds) ==
  [zone EXCEPT !.price = point.price, !.touches = @ + 1, !.endDate = At(ds, point.index)]

TouchRestart(zone, point, ds) ==
  [zone EXCEPT !.touches = @ + 1, !.startDate = At(ds, point.index),
               !.endDate = At(ds, point.index)]

\* zone.touches++; zone.endDate = dates[point.index]
Touch(zone, point, ds) ==
  [zone EXCEPT !.touches = @ + 1, !.endDate = At(ds, point.index)]

AddToZonesLastNear(zones, point, ds) ==
  LET near == {j \in 1..Len(zones) : NearZone(point, zones[j])}
      last == CHOOSE j \in near : \A k \in near : j >= k
  IN  IF near # {}
      THEN [zones EXCEPT ![last] = Touch(zones[last], point, ds)]
      ELSE Append(zones, [price |-> point.price, touches |-> 1,
                          startDate |-> At(ds, point.index),
                          endDate |-> At(ds, point.index)])

\* one swing point against the zones so far: the first near zone is touched,
\* and a zone is opened when none is near
AddToZones(zones, point, ds) ==
  LET near == {j \in 1..Len(zones) : NearZone(point, zones[j])}
      first == CHOOSE j \in near : \A k \in near : j <= k
  IN  IF near # {}
      THEN [zones EXCEPT ![first] = Touch(zones[first], point, ds)]
      ELSE Append(zones, [price |-> point.price, touches |-> 1,
                          startDate |-> At(ds, point.index),
                          endDate |-> At(ds, point.index)])

RECURSIVE ClusterLoop(_, _, _, _)
ClusterLoop(points, i, zones, ds) ==
  IF i > Len(points) THEN zones
  ELSE ClusterLoop(points, i + 1, AddToZones(zones, points[i], ds), ds)

\* insert z into zones (sorted by endDate descending), after its equals: a stable sort
RECURSIVE InsertByEndDate(_, _)
InsertByEndDate(zones, z) ==
  IF zones = <<>> THEN <<z>>
  ELSE IF zones[1].endDate >= z.endDate
       THEN <<zones[1]>> \o InsertByEndDate(Tail(zones), z)
       ELSE <<z>> \o zones

RECURSIVE SortByEndDateDesc(_)
SortByEndDateDesc(zones) ==
  IF zones = <<>> THEN <<>>
  ELSE InsertByEndDate(SortByEndDateDesc(SubSeq(zones, 1, Len(zones) - 1)), zones[Len(zones)])

StrongOldest(zones) ==
  LET strong == SelectSeq(zones, LAMBDA z : z.touches >= minZoneStrength)
  IN  SortByEndDateDesc(SubSeq(strong, 1, MinInt(MaxZones, Len(strong))))

\* .filter(touches >= minZoneStrength).sort(by endDate, descending).slice(0, 5)
StrongRecent(zones) ==
  LET strong == SelectSeq(zones, LAMBDA z : z.touches >= minZoneStrength)
      sorted == SortByEndDateDesc(strong)
  IN  SubSeq(sorted, 1, MinInt(MaxZones, Len(sorted)))

\* calculateDemandSupplyZones: the swing points it finds and the zones it stores
calculateDemandSupplyZones(prices, ds) ==
  IF Len(prices) < MinZoneData THEN [swingPoints |-> <<>>, zones |-> EmptyZones]
  ELSE LET points == SwingPointsOf(prices)
           swingLows == SelectSeq(points, LAMBDA pt : pt.type = "low")
           swingHighs == SelectSeq(points, LAMBDA pt : pt.type = "high")
       IN  [swingPoints |-> points,
            zones |-> [demand |-> StrongRecent(ClusterLoop(swingLows, 1, <<>>, ds)),
                       supply |-> StrongRecent(ClusterLoop(swingHighs, 1, <<>>, ds))]]

(* ---------------- inputs ---------------- *)
Prices == {Num(v) : v \in 1..MaxPrice}

RECURSIVE SeqsUpTo(_, _)
SeqsUpTo(S, n) ==
  IF n = 0 THEN {<<>>}
  ELSE LET shorter == SeqsUpTo(S, n - 1)
       IN  shorter \cup {Append(s, x) : s \in {t \in shorter : Len(t) = n - 1}, x \in S}

PriceSeries == SeqsUpTo(Prices, MaxLen)

CoarsePriceSeries == SeqsUpTo({Num(1), Num(2)}, MaxLen)

Periods == 1..MaxPeriod

KcMultiplier == Rat(3, 2)
BbMultiplier == Num(2)
BollingerStdDev == Num(2)
KeltnerMultiplier == Num(2)

\* the response whose aggregation is the series `prices`: one sample a day
SamplesOf(prices) ==
  [i \in 1..Len(prices) |-> [imported_date |-> i, underlying_price |-> prices[i]]]

\* responses handed to the aggregation: dates missing, empty or 1..MaxDate,
\* prices missing, null or a number
Samples ==
  [imported_date : (-1)..MaxDate,
   underlying_price : {Undefined, Null, Num(1), Num(2)}]

Responses == SeqsUpTo(Samples, MaxSamples)

\* positions of two extrema whose distance is about the detector's lookback
ExtremaPairs ==
  {x \in (1..ZoneLen) \X (1..ZoneLen) :
     x[2] - x[1] \in (lookbackPeriod - 1)..(lookbackPeriod + 2)}

\* series for the zone detector, ZoneLen long: non-decreasing ramps, a level
\* with two dips, a level with two peaks; and short level series
RampSeries ==
  {[i \in 1..ZoneLen |-> IF i <= a THEN Num(100) ELSE IF i <= b THEN Num(101) ELSE Num(110)] :
     a \in 0..ZoneLen, b \in 0..ZoneLen}

DipSeries ==
  {[i \in 1..ZoneLen |-> IF i = pq[1] THEN v1 ELSE IF i = pq[2] THEN v2 ELSE Num(110)] :
     pq \in ExtremaPairs,
     v1 \in {Num(100), Num(101), Num(105)}, v2 \in {Num(100), Num(101), Num(105)}}

PeakSeries ==
  {[i \in 1..ZoneLen |-> IF i = pq[1] THEN v1 ELSE IF i = pq[2] THEN v2 ELSE Num(100)] :
     pq \in ExtremaPairs,
     v1 \in {Num(110), Num(109), Num(105)}, v2 \in {Num(110), Num(109), Num(105)}}

ShortSeries == {[i \in 1..n |-> Num(100)] : n \in 1..(MinZoneData - 1)}

ZoneSeries == RampSeries \cup DipSeries \cup PeakSeries \cup ShortSeries

\* series with more price levels than a zone list keeps: every level is dipped
\* to (or risen to) once in a first round, and the levels of `mask` a second
\* time, in the order of the levels rotated by r
NumLevels == MaxZones + 1

Spacing == lookbackPeriod + 1

ManyLen == Spacing * 2 * NumLevels + lookbackPeriod

SecondRound(r, mask) ==
  SelectSeq([j \in 1..NumLevels |-> ((j - 1 + r) % NumLevels) + 1], LAMBDA l : l \in mask)

ManyExtrema(base, first, step, r, mask) ==
  LET visits == [j \in 1..NumLevels |-> j] \o SecondRound(r, mask)
  IN  [k \in 1..ManyLen |->
         IF k % Spacing = 0 /\ k \div Spacing <= Len(visits)
         THEN Num(first + step * (visits[k \div Spacing] - 1))
         ELSE Num(base)]

\* the levels visited a second time: all of them, or all but one or two
SecondVisits == {mask \in SUBSET (1..NumLevels) : Cardinality(mask) >= NumLevels - 2}

ManyDipSeries ==
  {ManyExtrema(200, 100, 10, r, mask) : r \in 0..(NumLevels - 4), mask \in SecondVisits}

ManyPeakSeries ==
  {ManyExtrema(100, 200, 20, 0, mask) : mask \in SecondVisits}

\* series whose extrema lie within tolerance of two anchors at once: three
\* extrema at 200, 203 and 206 in any order, 203 being within 2% of both
\* others and these two not of each other
OverlapSeries ==
  {[k \in 1..(Spacing * 4 + lookbackPeriod) |->
      IF k % Spacing = 0 /\ k \div Spacing <= 3
      THEN Num(200 + 3 * visits[k \div Spacing]) ELSE Num(base)] :
     visits \in {v \in [1..3 -> 0..2] : {v[1], v[2], v[3]} = 0..2}, base \in {100, 300}}

(* ---------------- main page (MainPageComponent) ---------------- *)
MaxInFlight == 2   \* most requests, and most timeouts of a kind, pending at once
MaxCalls == 3      \* most invocations of onLoadInfo that pass its test

\* the values of the symbol dropdown; 0 stands for null
Symbols == {1, 2}

NoSelection == 0

\* the datapoints onLoadInfo accepts, four of the six the dropdown offers
SupportedDatapoints == {"open_interest", "underlying_price", "premium", "volume"}

\* the datapoints the user is taken to choose: null, two supported, one unsupported
DatapointChoices == {"null", "underlying_price", "premium", "delta"}

\* what the server holds for a symbol: Expiration records, one of them without
\* an expirationdate (0); `past` says whether the date is before the clock
\* when the response is handled
ServerExpirations(symbol) ==
  IF symbol = 1
  THEN <<[id |-> 1, expirationdate |-> 3, past |-> FALSE],
         [id |-> 2, expirationdate |-> 0, past |-> FALSE],
         [id |-> 3, expirationdate |-> 1, past |-> TRUE]>>
  ELSE <<[id |-> 4, expirationdate |-> 4, past |-> FALSE],
         [id |-> 5, expirationdate |-> 2, past |-> FALSE]>>

\* the comparator of the sort: negative when a goes before b
ExpirationBefore(a, b) ==
  IF a.expired /\ ~b.expired THEN FALSE
  ELSE IF ~a.expired /\ b.expired THEN TRUE
  ELSE IF a.expired /\ b.expired THEN b.value < a.value
  ELSE a.value < b.value

\* the subscribe callback of loadExpirations: filter, map, sort; the label is
\* the formatted date, with " (Expired)" after it when `expired`
ExpirationOptions(list) ==
  LET kept == SelectSeq(list, LAMBDA exp : exp.expirationdate # 0)
      mapped == {[id |-> kept[k].id, value |-> kept[k].expirationdate,
                  expired |-> kept[k].past] : k \in 1..Len(kept)}
  IN  [k \in 1..Cardinality(mapped) |->
         CHOOSE a \in mapped :
            Cardinality({b \in mapped : ExpirationBefore(b, a)}) = k - 1]

\* optionChainData = null
NoData == <<>>

\* the object loadOptionChainData stores (its timestamp is left out)
ChainData(symbol, expiration) == <<[symbol |-> symbol, expiration |-> expiration]>>

\* the fields of MainPageComponent after construction, with the symbols loaded
MainPageConstructed ==
  /\ selectedSymbol = NoSelection
  /\ selectedExpiration = NoSelection
  /\ selectedDatapoint = "null"
  /\ expirations = <<>>
  /\ optionChainData = NoData
  /\ chartLoadTrigger = FALSE
  /\ loadingExpirations = FALSE
  /\ loadingData = FALSE
  /\ expirationRequests = <<>>
  /\ dataTimers = 0
  /\ chartTimers = 0
  /\ loadInfoCalls = 0
  /\ loadsStarted = 0
  /\ cleared = FALSE

(* ---------------- state machine ---------------- *)
NothingCalculated ==
  /\ calculated = {}
  /\ rsiData = <<>>
  /\ rsiAvgLoss = <<>>
  /\ dmiData = EmptyDmi
  /\ putDmiData = EmptyDmi
  /\ macdData = EmptyMacd
  /\ bollingerBands = EmptyBands
  /\ keltnerChannels = EmptyBands
  /\ ttmSqueezeData = EmptyTtm
  /\ c2TtmSqueezeData = EmptyTtm
  /\ swingPoints = <<>>
  /\ demandSupplyZones = EmptyZones

\* a container has loaded and aggregated the series `series`; its components
\* have been created with their inputs bound and have not calculated yet
Loaded(series, p, fast, slow, sig) ==
  /\ response = <<>>
  /\ data = SamplesOf(series)
  /\ priceData = series
  /\ dates = [i \in 1..Len(series) |-> i]
  /\ period = p
  /\ fastPeriod = fast
  /\ slowPeriod = slow
  /\ signalPeriod = sig
  /\ NothingCalculated
  /\ MainPageConstructed

\* indicator components
Init == \E series \in PriceSeries, p \in Periods : Loaded(series, p, 1, 2, 2)

InitCoarse == \E series \in CoarsePriceSeries, p \in Periods : Loaded(series, p, 1, 2, 2)

\* container 1 before its first response, which is on its way
InitAgg ==
  /\ \E r \in Responses : response = <<r>>
  /\ data = <<>>
  /\ priceData = <<>>
  /\ dates = <<>>
  /\ period = MaxPeriod
  /\ fastPeriod = 1
  /\ slowPeriod = 2
  /\ signalPeriod = 2
  /\ NothingCalculated
  /\ MainPageConstructed

\* container 2 holds a response and has not drawn it yet
InitZones ==
  /\ response = <<>>
  /\ \E series \in ZoneSeries : data = SamplesOf(series)
  /\ priceData = <<>>
  /\ dates = <<>>
  /\ period = 2
  /\ fastPeriod = 1
  /\ slowPeriod = 2
  /\ signalPeriod = 2
  /\ NothingCalculated
  /\ MainPageConstructed

\* container 2 holds a response with many price levels and has not drawn it yet
InitManyZones ==
  /\ response = <<>>
  /\ \E series \in ManyDipSeries \cup ManyPeakSeries \cup OverlapSeries :
        data = SamplesOf(series)
  /\ priceData = <<>>
  /\ dates = <<>>
  /\ period = 2
  /\ fastPeriod = 1
  /\ slowPeriod = 2
  /\ signalPeriod = 2
  /\ NothingCalculated
  /\ MainPageConstructed

RsiCreateChartNoReset ==
  /\ Len(priceData) > 0 /\ Len(dates) > 0
  /\ LET r == CalculateRSIResult(priceData, period)
     IN  /\ rsiData' = rsiData \o r.rsi
         /\ rsiAvgLoss' = r.avgLoss
  /\ calculated' = calculated \cup {"rsi"}
  /\ UNCHANGED <<mainVars, inputVars, dmiData, putDmiData, macdData, bandVars,
                 ttmSqueezeData, c2TtmSqueezeData, zoneVars>>

\* ChartRsiComponent: ngOnChanges -> createChart -> calculateRSI
RsiCreateChart ==
  /\ Len(priceData) > 0 /\ Len(dates) > 0
  /\ LET r == CalculateRSIResult(priceData, period)
     IN  /\ rsiData' = r.rsi
         /\ rsiAvgLoss' = r.avgLoss
  /\ calculated' = calculated \cup {"rsi"}
  /\ UNCHANGED <<mainVars, inputVars, dmiData, putDmiData, macdData, bandVars,
                 ttmSqueezeData, c2TtmSqueezeData, zoneVars>>

\* ChartDmiComponent: ngOnChanges -> calculateDMI
DmiOnChanges ==
  /\ Len(priceData) > 0
  /\ dmiData' = calculateDMI(priceData, period)
  /\ calculated' = calculated \cup {"dmi"}
  /\ UNCHANGED <<mainVars, inputVars, rsiVars, putDmiData, macdData, bandVars,
                 ttmSqueezeData, c2TtmSqueezeData, zoneVars>>

\* ChartPricePutComponent.createChart: the step calculateDMI(priceData, 14),
\* with `period` in place of 14
PutCalculateDmi ==
  /\ Len(data) > 0
  /\ putDmiData' = PutCalculateDMI(priceData, period)
  /\ calculated' = calculated \cup {"putDmi"}
  /\ UNCHANGED <<mainVars, inputVars, rsiVars, dmiData, macdData, bandVars,
                 ttmSqueezeData, c2TtmSqueezeData, zoneVars>>

\* ChartMacdComponent: ngOnChanges -> createChart -> calculateMACD
MacdCreateChart ==
  /\ Len(priceData) > 0 /\ Len(dates) > 0
  /\ macdData' = calculateMACD(priceData, fastPeriod, slowPeriod, signalPeriod)
  /\ calculated' = calculated \cup {"macd"}
  /\ UNCHANGED <<mainVars, inputVars, rsiVars, dmiData, putDmiData, bandVars,
                 ttmSqueezeData, c2TtmSqueezeData, zoneVars>>

\* ChartBollingerKeltnerComponent: ngOnChanges -> createChart
BollingerKeltnerCreateChart ==
  /\ Len(priceData) > 0 /\ Len(dates) > 0
  /\ bollingerBands' = calculateBollingerBands(priceData, period, BollingerStdDev)
  /\ keltnerChannels' = calculateKeltnerChannels(priceData, period, KeltnerMultiplier)
  /\ calculated' = calculated \cup {"bands"}
  /\ UNCHANGED <<mainVars, inputVars, rsiVars, dmiData, putDmiData, macdData,
                 ttmSqueezeData, c2TtmSqueezeData, zoneVars>>

\* ChartTtmSqueezeComponent: ngOnChanges (calculate mode) -> calculateTTMSqueeze
TtmOnChanges ==
  /\ Len(priceData) > 0 /\ Len(dates) > 0
  /\ ttmSqueezeData' = calculateTTMSqueeze(priceData, period, KcMultiplier, BbMultiplier)
  /\ calculated' = calculated \cup {"ttm"}
  /\ UNCHANGED <<mainVars, inputVars, rsiVars, dmiData, putDmiData, macdData, bandVars,
                 c2TtmSqueezeData, zoneVars>>

\* ChartPriceContainer2Component.createChart on the response in `data`:
\* aggregation, TTM squeeze (with `period` in place of 20), zone detection
Container2CreateChart ==
  /\ Len(data) > 0
  /\ LET groupedData == groupDataByDate(data)
         ds == SortKeys(groupedData.keys)
         priceDataArr == PricesOf(groupedData, ds)
         z == calculateDemandSupplyZones(priceDataArr, ds)
     IN  /\ priceData' = priceDataArr
         /\ dates' = ds
         /\ c2TtmSqueezeData' =
              Container2CalculateTTMSqueeze(priceDataArr, period, KcMultiplier, BbMultiplier)
         /\ swingPoints' = z.swingPoints
         /\ demandSupplyZones' = z.zones
  /\ calculated' = calculated \cup {"container2"}
  /\ UNCHANGED <<mainVars, response, data, period, fastPeriod, slowPeriod, signalPeriod, rsiVars,
                 dmiData, putDmiData, macdData, bandVars, ttmSqueezeData>>

\* ChartPriceContainer1Component.loadData, the `next` callback:
\* this.data = data; this.processData()
Container1LoadNext ==
  /\ response # <<>>
  /\ data' = Head(response)
  /\ response' = Tail(response)
  /\ IF Len(Head(response)) = 0
     THEN UNCHANGED <<priceData, dates>>
     ELSE LET groupedData == groupDataByDate(Head(response))
              ds == SortKeys(groupedData.keys)
          IN  /\ priceData' = PricesOf(groupedData, ds)
              /\ dates' = ds
  /\ calculated' = calculated \cup {"container1"}
  /\ UNCHANGED <<mainVars, period, fastPeriod, slowPeriod, signalPeriod, rsiVars, dmiData,
                 putDmiData, macdData, bandVars, ttmSqueezeData, c2TtmSqueezeData, zoneVars>>

Next ==
  \/ RsiCreateChart
  \/ MacdCreateChart
  \/ BollingerKeltnerCreateChart
  \/ DmiOnChanges
  \/ TtmOnChanges

\* the five indicator components of the two containers
Spec == InitCoarse /\ [][Next]_vars

NextFallback ==
  \/ RsiCreateChart
  \/ DmiOnChanges
  \/ PutCalculateDmi
  \/ TtmOnChanges
  \/ Container2CreateChart

\* the computations that divide: RSI, DMI/ADX (both copies), momentum regression (both copies)
SpecFallback == InitCoarse /\ [][NextFallback]_vars

SpecRsi == Init /\ [][RsiCreateChart]_vars

SpecDmi == Init /\ [][DmiOnChanges]_vars

SpecAgg == InitAgg /\ [][Container1LoadNext]_vars

SpecZones == InitZones /\ [][Container2CreateChart]_vars

SpecManyZones == InitManyZones /\ [][Container2CreateChart]_vars

\* ChartDmiComponent with its three inputs bound one by one: nothing ties
\* the length of `dates` to the length of `priceData`
InitMismatch ==
  \E series \in CoarsePriceSeries, n \in 0..MaxLen, p \in Periods :
     /\ response = <<>>
     /\ data = <<>>
     /\ priceData = series
     /\ dates = [i \in 1..n |-> i]
     /\ period = p
     /\ fastPeriod = 1
     /\ slowPeriod = 2
     /\ signalPeriod = 2
     /\ NothingCalculated
     /\ MainPageConstructed

SpecMismatch == InitMismatch /\ [][DmiOnChanges]_vars

\* ChartMacdComponent with its inputs bound: the price series and the three periods
InitMacd ==
  \E series \in CoarsePriceSeries, fast \in Periods, slow \in Periods, sig \in Periods :
     Loaded(series, 1, fast, slow, sig)

SpecMacd == InitMacd /\ [][MacdCreateChart]_vars

SpecBands == InitCoarse /\ [][BollingerKeltnerCreateChart]_vars

\* the two containers with a response loaded and their indicator components
\* bound to it: a short series, or a series with two lows or two highs that
\* form a zone
InitTwice ==
  \/ \E series \in {s \in CoarsePriceSeries : Len(s) = MaxLen} : Loaded(series, 2, 1, 2, 2)
  \/ \E base \in {90, 110} :
        Loaded([i \in 1..ZoneLen |->
                  IF i \in {lookbackPeriod + 1, 2 * lookbackPeriod + 2}
                  THEN Num(100) ELSE Num(base)],
               ZoneLen - 3, 1, ZoneLen - 2, 2)

NextTwice ==
  \/ RsiCreateChart
  \/ MacdCreateChart
  \/ DmiOnChanges
  \/ PutCalculateDmi
  \/ TtmOnChanges
  \/ Container2CreateChart

\* every computation of the claim, each called any number of times
SpecTwice == InitTwice /\ [][NextTwice]_vars

SpecTtm == InitCoarse /\ [][TtmOnChanges]_vars

(* ---------------- main page: handlers, responses and timeouts ---------------- *)
chartVars == <<inputVars, calculated, rsiVars, dmiData, putDmiData, macdData, bandVars,
               ttmSqueezeData, c2TtmSqueezeData, zoneVars>>

\* what the expiration dropdown offers: null or the value of one of its options
ExpirationChoices == {NoSelection} \cup {expirations[k].value : k \in 1..Len(expirations)}

\* MainPageComponent.onSymbolChange, with loadExpirations up to its request
OnSymbolChange ==
  \E symbol \in Symbols \cup {NoSelection} :
     /\ symbol # NoSelection => Len(expirationRequests) < MaxInFlight
     /\ selectedSymbol' = symbol
     /\ selectedExpiration' = NoSelection
     /\ expirations' = <<>>
     /\ optionChainData' = NoData
     /\ cleared' = TRUE
     /\ IF symbol # NoSelection
        THEN /\ loadingExpirations' = TRUE
             /\ expirationRequests' = Append(expirationRequests, symbol)
        ELSE UNCHANGED <<loadingExpirations, expirationRequests>>
     /\ UNCHANGED <<selectedDatapoint, chartLoadTrigger, loadingData, dataTimers,
                    chartTimers, loadInfoCalls, loadsStarted, chartVars>>

\* MainPageComponent.onExpirationChange, with loadOptionChainData up to its setTimeout
OnExpirationChange ==
  \E expiration \in ExpirationChoices :
     /\ (expiration # NoSelection /\ selectedSymbol # NoSelection) => dataTimers < MaxInFlight
     /\ selectedExpiration' = expiration
     /\ selectedDatapoint' = "null"
     /\ cleared' = IF expiration # NoSelection THEN FALSE ELSE cleared
     /\ IF expiration # NoSelection /\ selectedSymbol # NoSelection
        THEN /\ loadingData' = TRUE
             /\ dataTimers' = dataTimers + 1
        ELSE UNCHANGED <<loadingData, dataTimers>>
     /\ UNCHANGED <<selectedSymbol, expirations, optionChainData, chartLoadTrigger,
                    loadingExpirations, expirationRequests, chartTimers, loadInfoCalls,
                    loadsStarted, chartVars>>

\* MainPageComponent.onDatapointChange
OnDatapointChange ==
  \E datapoint \in DatapointChoices :
     /\ selectedDatapoint' = datapoint
     /\ UNCHANGED <<selectedSymbol, selectedExpiration, expirations, optionChainData,
                    chartLoadTrigger, loadingExpirations, loadingData, expirationRequests,
                    dataTimers, chartTimers, loadInfoCalls, loadsStarted, cleared, chartVars>>

\* MainPageComponent.onClearSelections
OnClearSelections ==
  /\ selectedSymbol' = NoSelection
  /\ selectedExpiration' = NoSelection
  /\ selectedDatapoint' = "null"
  /\ expirations' = <<>>
  /\ optionChainData' = NoData
  /\ cleared' = TRUE
  /\ UNCHANGED <<chartLoadTrigger, loadingExpirations, loadingData, expirationRequests,
                 dataTimers, chartTimers, loadInfoCalls, loadsStarted, chartVars>>

\* ngOnChanges of a chart whose loadTrigger input has changed to `loadTrigger`:
\* the timeouts pending after it
ChartNgOnChanges(loadTrigger, timers) ==
  IF loadTrigger THEN timers + 1 ELSE timers

\* MainPageComponent.onLoadInfo when its test passes, followed by the change
\* detection that hands the new chartLoadTrigger to the displayed charts
OnLoadInfo ==
  /\ selectedSymbol # NoSelection
  /\ selectedExpiration # NoSelection
  /\ selectedDatapoint \in SupportedDatapoints
  /\ loadInfoCalls < MaxCalls
  /\ chartLoadTrigger' = ~chartLoadTrigger
  /\ chartTimers' = ChartNgOnChanges(~chartLoadTrigger, chartTimers)
  /\ loadInfoCalls' = loadInfoCalls + 1
  /\ UNCHANGED <<selectedSymbol, selectedExpiration, selectedDatapoint, expirations,
                 optionChainData, loadingExpirations, loadingData, expirationRequests,
                 dataTimers, loadsStarted, cleared, chartVars>>

\* the subscribe callback of loadExpirations: the response to any of the
\* requests in flight arrives, or the request fails and catchError hands on []
ExpirationsResponse ==
  \E k \in 1..Len(expirationRequests), failed \in BOOLEAN :
     /\ expirations' = ExpirationOptions(IF failed THEN <<>>
                                         ELSE ServerExpirations(expirationRequests[k]))
     /\ loadingExpirations' = FALSE
     /\ expirationRequests' = SubSeq(expirationRequests, 1, k - 1)
                                \o SubSeq(expirationRequests, k + 1, Len(expirationRequests))
     /\ UNCHANGED <<selectedSymbol, selectedExpiration, selectedDatapoint, optionChainData,
                    chartLoadTrigger, loadingData, dataTimers, chartTimers, loadInfoCalls,
                    loadsStarted, cleared, chartVars>>

\* the timeout of loadOptionChainData fires
OptionChainDataTimer ==
  /\ dataTimers > 0
  /\ optionChainData' = ChainData(selectedSymbol, selectedExpiration)
  /\ loadingData' = FALSE
  /\ dataTimers' = dataTimers - 1
  /\ UNCHANGED <<selectedSymbol, selectedExpiration, selectedDatapoint, expirations,
                 chartLoadTrigger, loadingExpirations, expirationRequests, chartTimers,
                 loadInfoCalls, loadsStarted, cleared, chartVars>>

\* the timeout of a chart's ngOnChanges fires: loadData starts
ChartLoadDataTimer ==
  /\ chartTimers > 0
  /\ chartTimers' = chartTimers - 1
  /\ loadsStarted' = loadsStarted + 1
  /\ UNCHANGED <<selectedSymbol, selectedExpiration, selectedDatapoint, expirations,
                 optionChainData, chartLoadTrigger, loadingExpirations, loadingData,
                 expirationRequests, dataTimers, loadInfoCalls, cleared, chartVars>>

\* the main page after construction; its charts have loaded nothing yet
InitMainPage == Loaded(<<>>, MaxPeriod, 1, 2, 2)

NextMainPage ==
  \/ OnSymbolChange
  \/ OnExpirationChange
  \/ OnDatapointChange
  \/ OnClearSelections
  \/ OnLoadInfo
  \/ ExpirationsResponse
  \/ OptionChainDataTimer
  \/ ChartLoadDataTimer

SpecMainPage == InitMainPage /\ [][NextMainPage]_vars

\* the browser runs every timeout that is due
SpecMainPageTimers == SpecMainPage /\ WF_vars(ChartLoadDataTimer)

\* container 1 before the responses of two loads, each of at most one sample
InitReload ==
  /\ \E first \in SeqsUpTo(Samples, 1), second \in SeqsUpTo(Samples, 1) :
        response = <<first, second>>
  /\ data = <<>>
  /\ priceData = <<>>
  /\ dates = <<>>
  /\ period = MaxPeriod
  /\ fastPeriod = 1
  /\ slowPeriod = 2
  /\ signalPeriod = 2
  /\ NothingCalculated
  /\ MainPageConstructed

SpecReload == InitReload /\ [][Container1LoadNext]_vars

\* the two components that fit a regression, on the same series
SpecRegression == InitCoarse /\ [][TtmOnChanges \/ Container2CreateChart]_vars

(* ---------------- properties ---------------- *)
InRange(x) == JGe(x, Zero) /\ JLe(x, Hundred)

Defined(s, i) == i < Len(s) /\ ~IsNull(At(s, i))

\* C1: every output array of every indicator (RSI; MACD macd, signal, histogram;
\* +DI, -DI, ADX; Bollinger; Keltner; TTM squeeze) is as long as the input series.
C1_OutputLengths ==
  LET n == Len(priceData)
  IN  /\ "rsi" \in calculated => Len(rsiData) = n
      /\ "macd" \in calculated =>
            Len(macdData.macd) = n /\ Len(macdData.signal) = n /\ Len(macdData.histogram) = n
      /\ "dmi" \in calculated =>
            Len(dmiData.plusDI) = n /\ Len(dmiData.minusDI) = n /\ Len(dmiData.adx) = n
      /\ "bands" \in calculated =>
            /\ Len(bollingerBands.upperBand) = n /\ Len(bollingerBands.middleBand) = n
            /\ Len(bollingerBands.lowerBand) = n
            /\ Len(keltnerChannels.upperBand) = n /\ Len(keltnerChannels.middleBand) = n
            /\ Len(keltnerChannels.lowerBand) = n
      /\ "ttm" \in calculated =>
            /\ Len(ttmSqueezeData.upperBand) = n /\ Len(ttmSqueezeData.lowerBand) = n
            /\ Len(ttmSqueezeData.momentum) = n /\ Len(ttmSqueezeData.squeeze) = n
            /\ Len(ttmSqueezeData.histogram) = n /\ Len(ttmSqueezeData.barColors) = n

\* C2: with len >= period + 1, calculateRSI leaves every index below `period`
\* absent and puts the first RSI value, the one computed from the plain
\* average of the first `period` gains and losses, at index `period`.
C2_FirstRsiAtPeriod ==
  ("rsi" \in calculated /\ Len(priceData) >= period + 1) =>
     /\ \A i \in 0..(period - 1) : ~Defined(rsiData, i)
     /\ Defined(rsiData, period)
     /\ At(rsiData, period) =
          RsiValue(JDiv(SumSeq(Slice(Gains(priceData), 0, period)), Num(period)),
                   JDiv(SumSeq(Slice(Losses(priceData), 0, period)), Num(period)))

\* C3: every defined RSI value lies in [0,100], and it is exactly 100 wherever
\* the average loss (initial or Wilder-smoothed) of that position is 0.
C3_RsiRange ==
  "rsi" \in calculated =>
     \A k \in 1..Len(rsiData) :
        ~IsNull(rsiData[k]) =>
           /\ InRange(rsiData[k])
           /\ JEq(rsiAvgLoss[k], Zero) => rsiData[k] = Hundred

\* a smoothed position with average loss 0 and a position strictly inside (0,100)
C3_Witness ==
  /\ "rsi" \in calculated
  /\ \E k \in 3..Len(rsiData) : JEq(rsiAvgLoss[k], Zero) /\ rsiData[k] = Hundred
  /\ \E k \in 3..Len(rsiData) : JGt(rsiData[k], Zero) /\ JLt(rsiData[k], Hundred)

\* C6: in the DMI component, for len >= 2N, +DI and -DI are absent below index N
\* and defined at N; ADX is absent below 2N-1 and defined at 2N-1, where it is
\* the plain mean of the first N DX values.
C6_DmiAlignment ==
  ("dmi" \in calculated /\ Len(priceData) >= 2 * period) =>
     /\ \A i \in 0..(period - 1) : ~Defined(dmiData.plusDI, i) /\ ~Defined(dmiData.minusDI, i)
     /\ Defined(dmiData.plusDI, period) /\ Defined(dmiData.minusDI, period)
     /\ \A i \in 0..(2 * period - 2) : ~Defined(dmiData.adx, i)
     /\ Defined(dmiData.adx, 2 * period - 1)
     /\ At(dmiData.adx, 2 * period - 1) =
          JDiv(SumSeq(Slice(DxValues(priceData, period), 0, period)), Num(period))

\* C7: in the DMI component every defined +DI, -DI and ADX lies in [0,100], and
\* where the Wilder-smoothed true range is 0 both +DI and -DI are 0, not absent.
C7_DmiRange ==
  "dmi" \in calculated =>
     /\ \A k \in 1..Len(priceData) :
           /\ ~IsNull(dmiData.plusDI[k]) => InRange(dmiData.plusDI[k])
           /\ ~IsNull(dmiData.minusDI[k]) => InRange(dmiData.minusDI[k])
           /\ ~IsNull(dmiData.adx[k]) => InRange(dmiData.adx[k])
     /\ \A k \in 1..Len(DmiSmoothedTR(priceData, period)) :
           JEq(DmiSmoothedTR(priceData, period)[k], Zero) =>
              /\ dmiData.plusDI[k + period] = Zero
              /\ dmiData.minusDI[k + period] = Zero

\* a zero smoothed true range next to a trending stretch with a defined ADX
C7_Witness ==
  /\ "dmi" \in calculated
  /\ period >= 2
  /\ \E k \in 1..Len(DmiSmoothedTR(priceData, period)) :
        JEq(DmiSmoothedTR(priceData, period)[k], Zero) /\ dmiData.plusDI[k + period] = Zero
  /\ \E k \in 1..Len(priceData) : ~IsNull(dmiData.adx[k]) /\ JGt(dmiData.adx[k], Zero)
  /\ \E k \in 1..Len(priceData) : ~IsNull(dmiData.plusDI[k]) /\ JGt(dmiData.plusDI[k], Zero)

\* the retained samples of `items` that carry the date d, in response order
RetainedOn(items, d) ==
  SelectSeq(items, LAMBDA it : Retains(it) /\ it.imported_date = d)

\* C4: aggregation leaves exactly one entry per distinct imported_date of the
\* retained samples, in ascending key order, and the value of each entry is the
\* sum of the underlying_price of the retained samples of that date divided by
\* their number.
C4_OnePerDateMean ==
  ("container1" \in calculated /\ Len(data) > 0) =>
     LET keySet == {data[i].imported_date : i \in {j \in 1..Len(data) : Retains(data[j])}}
     IN  /\ Len(dates) = Cardinality(keySet)
         /\ {dates[k] : k \in 1..Len(dates)} = keySet
         /\ \A k \in 1..(Len(dates) - 1) : dates[k] < dates[k + 1]
         /\ Len(priceData) = Len(dates)
         /\ \A k \in 1..Len(dates) :
               LET on == RetainedOn(data, dates[k])
               IN  priceData[k] =
                     JDiv(SumSeq([j \in 1..Len(on) |-> ToNumber(on[j].underlying_price)]),
                          Num(Len(on)))

\* two dates that arrive in descending order, one of them with two samples of
\* different prices
C4_Witness ==
  /\ "container1" \in calculated
  /\ Len(data) = 3
  /\ data[1].imported_date = 2
  /\ dates = <<1, 2>>
  /\ priceData = <<Rat(3, 2), Num(1)>>

\* C5: a sample without its key (imported_date absent or empty) or without its
\* value (underlying_price undefined or null) is dropped: the aggregation of a
\* response is the aggregation of its complete samples alone.
C5_IncompleteDropped ==
  ("container1" \in calculated /\ Len(data) > 0) =>
     LET complete == groupDataByDate(SelectSeq(data, RetainsNoNull))
     IN  /\ dates = SortKeys(complete.keys)
         /\ priceData = PricesOf(complete, dates)

\* the arrays the RSI, DMI/ADX and momentum computations fill
RatioOutputs ==
  {rsiData, dmiData.plusDI, dmiData.minusDI, dmiData.adx,
   putDmiData.plusDI, putDmiData.minusDI, putDmiData.adx,
   ttmSqueezeData.momentum, c2TtmSqueezeData.momentum}

\* C8: in every implementation of RSI, DMI/ADX and the momentum regression,
\* the put price chart's and container 2's copies included, a zero denominator
\* gives the fallback value, so no output position holds NaN or an infinity.
C8_NoNaNNoInfinity ==
  \A s \in RatioOutputs : \A k \in 1..Len(s) : ~IsNaN(s[k]) /\ ~IsInfinite(s[k])

\* the one demand zone of the example: two touches, anchored at 100
OneDemandZoneAt100 ==
  /\ Len(demandSupplyZones.demand) = 1
  /\ demandSupplyZones.demand[1].touches = 2
  /\ demandSupplyZones.demand[1].price = Num(100)

\* the series dips to 100 at index i and to 101 at index j, both where the
\* detector looks, and is more than 2% above them everywhere else
TwoLowsAt(i, j) ==
  /\ i >= lookbackPeriod /\ j < Len(priceData) - lookbackPeriod /\ i < j
  /\ At(priceData, i) = Num(100)
  /\ At(priceData, j) = Num(101)
  /\ \A k \in 0..(Len(priceData) - 1) : k \notin {i, j} => JGt(At(priceData, k), Num(105))

\* C9 as stated: lows of 100 and 101 whose indices are 5 apart give exactly
\* one demand zone with touches = 2 and price = 100.
C9_LowsFiveApart ==
  "container2" \in calculated =>
     \A i \in 0..(Len(priceData) - 1) :
        TwoLowsAt(i, i + lookbackPeriod) => OneDemandZoneAt100

\* the swing lows among the swing points found
SwingLows == SelectSeq(swingPoints, LAMBDA pt : pt.type = "low")

\* C9 amended: when the swing lows are exactly two, the earlier at 100 and the
\* later at 101, with indices more than 5 apart, there is exactly one demand
\* zone, with touches = 2 and price = 100.
C9_LowsMoreThanFiveApart ==
  (/\ "container2" \in calculated
   /\ Len(SwingLows) = 2
   /\ SwingLows[1].price = Num(100)
   /\ SwingLows[2].price = Num(101)
   /\ SwingLows[2].index - SwingLows[1].index > lookbackPeriod) => OneDemandZoneAt100

\* a series with its two lows six or more apart, both found as swing lows
C9_Witness ==
  /\ "container2" \in calculated
  /\ \E i, j \in 0..(Len(priceData) - 1) : j - i > lookbackPeriod /\ TwoLowsAt(i, j)
  /\ Len(SwingLows) = 2
  /\ SwingLows[1].price = Num(100)
  /\ SwingLows[2].price = Num(101)
  /\ OneDemandZoneAt100

NonDecreasing(s) == \A k \in 1..(Len(s) - 1) : JLe(s[k], s[k + 1])

\* C10: on a non-decreasing series the detector finds no swing point and
\* stores no demand zone and no supply zone.
C10_NonDecreasingNoZones ==
  ("container2" \in calculated /\ NonDecreasing(priceData)) =>
     /\ swingPoints = <<>>
     /\ demandSupplyZones.demand = <<>>
     /\ demandSupplyZones.supply = <<>>

\* a series long enough to be scanned that rises through plateaus
C10_Witness ==
  /\ "container2" \in calculated
  /\ Len(priceData) >= MinZoneData
  /\ NonDecreasing(priceData)
  /\ priceData[1] = Num(100)
  /\ priceData[lookbackPeriod + 2] = Num(101)
  /\ priceData[Len(priceData)] = Num(110)
  /\ swingPoints = <<>>

\* the swing highs among the swing points found
SwingHighs == SelectSeq(swingPoints, LAMBDA pt : pt.type = "high")

\* the zones with two or more touches among the clusters of `points`
Qualifying(points) ==
  LET all == ClusterLoop(points, 1, <<>>, dates)
  IN  {all[j] : j \in {i \in 1..Len(all) : all[i].touches >= 2}}

\* `list` holds only qualifying zones, at most 5, latest end date first, and
\* no qualifying zone left out ends later than a zone of the list
RecentStrongList(list, points) ==
  LET q == Qualifying(points)
      listed == {list[k] : k \in 1..Len(list)}
  IN  /\ \A k \in 1..Len(list) : list[k].touches >= 2 /\ list[k] \in q
      /\ Len(list) <= 5
      /\ Len(list) = (IF Cardinality(q) > 5 THEN 5 ELSE Cardinality(q))
      /\ Cardinality(listed) = Len(list)
      /\ \A k \in 1..(Len(list) - 1) : list[k].endDate >= list[k + 1].endDate
      /\ \A z \in q \ listed : \A k \in 1..Len(list) : z.endDate <= list[k].endDate

\* C11: the demand list and the supply list each hold only zones with
\* touches >= 2, at most 5 of them, by end date descending, and they are the
\* 5 most recently ended qualifying zones when more than 5 qualify.
C11_ZoneLists ==
  "container2" \in calculated =>
     /\ RecentStrongList(demandSupplyZones.demand, SwingLows)
     /\ RecentStrongList(demandSupplyZones.supply, SwingHighs)

\* six demand zones qualify, five are listed, and the list is not in the
\* order in which the zones were opened
C11_Witness ==
  /\ "container2" \in calculated
  /\ Cardinality(Qualifying(SwingLows)) > 5
  /\ Len(demandSupplyZones.demand) = 5
  /\ \E k \in 1..4 :
        demandSupplyZones.demand[k].startDate < demandSupplyZones.demand[k + 1].startDate

\* C12: when the DMI indicator is given a price series and a date series of
\* different lengths, the call fails: it stores no output computed from them.
C12_MismatchFails ==
  ("dmi" \in calculated /\ Len(dates) # Len(priceData)) => dmiData = EmptyDmi

\* C13: at every position the MACD histogram is absent exactly when the MACD
\* line or the aligned signal line is absent there, and otherwise it is the
\* MACD value minus the signal value.
C13_Histogram ==
  "macd" \in calculated =>
     /\ Len(macdData.histogram) = Len(macdData.macd)
     /\ \A i \in 0..(Len(macdData.macd) - 1) :
          /\ IsNull(At(macdData.histogram, i)) <=>
                (IsNull(At(macdData.macd, i)) \/ IsNull(At(macdData.signal, i)))
          /\ ~IsNull(At(macdData.histogram, i)) =>
                At(macdData.histogram, i) = JSub(At(macdData.macd, i), At(macdData.signal, i))

\* the MACD line is defined at a position where the signal line is not yet,
\* and at a later position both are
C13_Witness ==
  /\ "macd" \in calculated
  /\ \E i \in 0..(Len(macdData.macd) - 1), j \in 0..(Len(macdData.macd) - 1) :
        /\ ~IsNull(At(macdData.macd, i)) /\ IsNull(At(macdData.signal, i))
        /\ ~IsNull(At(macdData.histogram, j)) /\ At(macdData.histogram, j) # Zero

\* C14: when the price series has fewer than slowPeriod values, calculateMACD
\* leaves macd, signal and histogram absent at every position.
C14_ShortSeriesAllAbsent ==
  ("macd" \in calculated /\ Len(priceData) < slowPeriod) =>
     /\ macdData.macd = NullSeq(Len(priceData))
     /\ macdData.signal = NullSeq(Len(priceData))
     /\ macdData.histogram = NullSeq(Len(priceData))

\* a series too short for the slow average and long enough for the fast one
C14_Witness ==
  /\ "macd" \in calculated
  /\ fastPeriod <= Len(priceData) /\ Len(priceData) < slowPeriod
  /\ Len(macdData.macd) >= 2

\* `ema` is absent below index P - 1 and is the simple mean of S[0..P-1] at
\* index P - 1 when S has at least P values, and is absent everywhere otherwise
EmaSeeded(S, P, ema) ==
  /\ Len(ema) = Len(S)
  /\ Len(S) >= P =>
       /\ \A i \in 0..(P - 2) : IsNull(At(ema, i))
       /\ At(ema, P - 1) = JDiv(SumSeq(Slice(S, 0, P)), Num(P))
  /\ Len(S) < P => \A i \in 0..(Len(S) - 1) : IsNull(At(ema, i))

\* C15: for a series S with len(S) >= P, calculateEMA(S, P) is absent at every
\* index below P - 1 and its value at P - 1 is the simple mean of S[0..P-1];
\* when len(S) < P every position is absent.
C15_EmaSeed ==
  "macd" \in calculated =>
     /\ EmaSeeded(priceData, fastPeriod, calculateEMA(priceData, fastPeriod))
     /\ EmaSeeded(priceData, slowPeriod, calculateEMA(priceData, slowPeriod))
     /\ EmaSeeded(NonNull(macdData.macd), signalPeriod,
                  calculateEMA(NonNull(macdData.macd), signalPeriod))

\* the fast average is seeded after an absent position by a mean that differs
\* from the last price of its window
C15_Witness ==
  /\ "macd" \in calculated
  /\ fastPeriod >= 2 /\ Len(priceData) > fastPeriod
  /\ LET ema == calculateEMA(priceData, fastPeriod)
     IN  /\ IsNull(At(ema, 0))
         /\ ~IsNull(At(ema, fastPeriod - 1))
         /\ At(ema, fastPeriod - 1) # At(priceData, fastPeriod - 1)

\* C16: for a series S with len(S) >= P, the Bollinger middle band is absent
\* at every index below P - 1, and at every index i >= P - 1 it equals the
\* simple mean of S[i-P+1..i].
C16_MiddleBandIsWindowMean ==
  ("bands" \in calculated /\ Len(priceData) >= period) =>
     /\ Len(bollingerBands.middleBand) = Len(priceData)
     /\ \A i \in 0..(Len(priceData) - 1) :
          IF i < period - 1
          THEN SIsNull(At(bollingerBands.middleBand, i))
          ELSE At(bollingerBands.middleBand, i) =
                 SOfNum(JDiv(SumSeq([k \in 1..period |-> At(priceData, i - period + k)]),
                             Num(period)))

\* a window that has moved past the start of the series, after absent positions
C16_Witness ==
  /\ "bands" \in calculated
  /\ period >= 2 /\ Len(priceData) > period
  /\ SIsNull(At(bollingerBands.middleBand, 0))
  /\ At(bollingerBands.middleBand, period) # At(bollingerBands.middleBand, period - 1)

\* s >= y and s <= y for a surd s and a finite number y
SGeNum(s, y) == ~SLtNum(s, y) /\ ~IsNaN(s[1]) /\ ~IsNaN(s[3])

SLeNum(s, y) == ~SGtNum(s, y) /\ ~IsNaN(s[1]) /\ ~IsNaN(s[3])

BollingerOrderedAt(i) ==
  ~SIsNull(At(bollingerBands.middleBand, i)) =>
     /\ SGeNum(At(bollingerBands.upperBand, i), At(bollingerBands.middleBand, i)[1])
     /\ SLeNum(At(bollingerBands.lowerBand, i), At(bollingerBands.middleBand, i)[1])

KeltnerOrderedAt(i) ==
  ~IsNull(At(keltnerChannels.middleBand, i)) =>
     /\ JGe(At(keltnerChannels.upperBand, i), At(keltnerChannels.middleBand, i))
     /\ JGe(At(keltnerChannels.middleBand, i), At(keltnerChannels.lowerBand, i))

\* C17: at every position where the bands are defined, Bollinger upper >=
\* middle >= lower and Keltner upper >= middle >= lower, for every window
\* and the (nonnegative) multipliers of the component.
C17_BandsOrdered ==
  "bands" \in calculated =>
     \A i \in 0..(Len(priceData) - 1) : BollingerOrderedAt(i) /\ KeltnerOrderedAt(i)

DefinedPositions(s) == SelectSeq([k \in 1..Len(s) |-> k - 1], LAMBDA i : ~IsNull(At(s, i)))

\* C19: the signal line is the EMA(signalPeriod) of the defined MACD values,
\* laid back in order onto the defined MACD positions: the j-th defined MACD
\* position receives the j-th EMA output (absent for the first
\* signalPeriod - 1 of them), and the signal is absent wherever the MACD
\* line is absent.
C19_SignalAligned ==
  "macd" \in calculated =>
     LET positions == DefinedPositions(macdData.macd)
         ema == calculateEMA(NonNull(macdData.macd), signalPeriod)
     IN  /\ Len(macdData.signal) = Len(macdData.macd)
         /\ Len(ema) = Len(positions)
         /\ \A j \in 1..Len(positions) :
               /\ At(macdData.signal, positions[j]) = ema[j]
               /\ j <= signalPeriod - 1 => IsNull(At(macdData.signal, positions[j]))
         /\ \A i \in 0..(Len(macdData.macd) - 1) :
               IsNull(At(macdData.macd, i)) => IsNull(At(macdData.signal, i))

\* the MACD line starts after an absent position, the signal line starts
\* later still, and two signal values differ
C19_Witness ==
  /\ "macd" \in calculated
  /\ signalPeriod >= 2
  /\ IsNull(At(macdData.macd, 0))
  /\ \E i \in 1..(Len(macdData.macd) - 2) :
        /\ ~IsNull(At(macdData.macd, i - 1)) /\ IsNull(At(macdData.signal, i - 1))
        /\ ~IsNull(At(macdData.signal, i)) /\ ~IsNull(At(macdData.signal, i + 1))
        /\ At(macdData.signal, i) # At(macdData.signal, i + 1)

\* the Bollinger bands of the window that ends at position i
BbUpperAt(i) ==
  LET slice == [k \in 1..period |-> At(priceData, i - period + k)]
  IN  Surd(Sma(slice, period), BbMultiplier, Variance(slice, period))

BbLowerAt(i) ==
  LET slice == [k \in 1..period |-> At(priceData, i - period + k)]
  IN  Surd(Sma(slice, period), JNeg(BbMultiplier), Variance(slice, period))

\* C20: the TTM squeeze flag at a position i >= period - 1 is true exactly
\* when bbUpper < kcUpper and bbLower > kcLower for the window ending at i
\* (strictly on both sides), and it is false at every position i < period - 1.
C20_SqueezeFlag ==
  "ttm" \in calculated =>
     /\ Len(ttmSqueezeData.squeeze) = Len(priceData)
     /\ \A i \in 0..(Len(priceData) - 1) :
          IF i < period - 1
          THEN At(ttmSqueezeData.squeeze, i) = FALSE
          ELSE At(ttmSqueezeData.squeeze, i) =
                 (/\ SLtNum(BbUpperAt(i), At(ttmSqueezeData.upperBand, i))
                  /\ SGtNum(BbLowerAt(i), At(ttmSqueezeData.lowerBand, i)))

\* one series with a position before the first window, a window in squeeze,
\* and a flat window, whose bands coincide and which is not in squeeze
C20_Witness ==
  /\ "ttm" \in calculated
  /\ period >= 2
  /\ \E i \in (period - 1)..(Len(priceData) - 1), j \in (period - 1)..(Len(priceData) - 1) :
        /\ At(ttmSqueezeData.squeeze, i) = TRUE
        /\ At(ttmSqueezeData.squeeze, j) = FALSE
        /\ At(ttmSqueezeData.upperBand, j) = At(ttmSqueezeData.lowerBand, j)

\* C21: momentum is defined at every position i >= period - 1, and the
\* regression at i is fitted through the base values of exactly the `period`
\* positions i-period+1..i: the fitted series has `period` entries, the j-th
\* being the base value of position i - period + j.
C21_MomentumWindow ==
  "ttm" \in calculated =>
     \A i \in (period - 1)..(Len(priceData) - 1) :
        LET fitted == ValSeries(priceData, period, i)
        IN  /\ Defined(ttmSqueezeData.momentum, i)
            /\ At(ttmSqueezeData.momentum, i) = linearRegression(fitted)
            /\ Len(fitted) = period
            /\ \A j \in 1..Len(fitted) :
                  fitted[j] = BaseValue(priceData, period, i - period + j)

\* the zones after the first n of `points` have been clustered
ZonesAfter(points, n) == ClusterLoop(SubSeq(points, 1, n), 1, <<>>, dates)

\* clustering the next point keeps every zone, its price and its start date;
\* a zone that changes is near the point, gains one touch and ends at the point
AnchorsKept(points) ==
  \A n \in 0..(Len(points) - 1) :
     LET before == ZonesAfter(points, n)
         after == ZonesAfter(points, n + 1)
         point == points[n + 1]
     IN  /\ Len(after) >= Len(before)
         /\ \A j \in 1..Len(before) :
               /\ after[j].price = before[j].price
               /\ after[j].startDate = before[j].startDate
               /\ after[j] # before[j] =>
                     /\ NearZone(point, before[j])
                     /\ after[j].touches = before[j].touches + 1
                     /\ after[j].endDate = At(dates, point.index)

\* every stored zone carries the price and the date of a swing point as its
\* price and start date
OpenedAt(list, points) ==
  \A k \in 1..Len(list) :
     \E n \in 1..Len(points) :
        /\ list[k].price = points[n].price
        /\ list[k].startDate = At(dates, points[n].index)
        /\ list[k].endDate >= list[k].startDate

\* C22: a zone's price is set when the zone is opened and never changes: a
\* later swing point within 2% of that anchor only increments touches and
\* replaces endDate, and leaves price and startDate unchanged.
C22_AnchorImmutable ==
  "container2" \in calculated =>
     /\ AnchorsKept(SwingLows) /\ AnchorsKept(SwingHighs)
     /\ OpenedAt(demandSupplyZones.demand, SwingLows)
     /\ OpenedAt(demandSupplyZones.supply, SwingHighs)

\* a stored demand zone touched by a later low at another price: it keeps the
\* price and the date of the low that opened it and ends at the later low
C22_Witness ==
  /\ "container2" \in calculated
  /\ Len(SwingLows) = 2
  /\ SwingLows[1].price # SwingLows[2].price
  /\ Len(demandSupplyZones.demand) = 1
  /\ demandSupplyZones.demand[1].price = SwingLows[1].price
  /\ demandSupplyZones.demand[1].startDate = At(dates, SwingLows[1].index)
  /\ demandSupplyZones.demand[1].endDate = At(dates, SwingLows[2].index)

\* C23: in the DMI component, for every series of length >= 2N the ADX is
\* defined at every index from 2N-1 through the last one, with no absent
\* position after the first defined one; in particular it is defined at the
\* final position, the one getDMIInfo reports as current.
C23_AdxDefinedToEnd ==
  ("dmi" \in calculated /\ Len(priceData) >= 2 * period) =>
     /\ \A i \in (2 * period - 1)..(Len(priceData) - 1) : Defined(dmiData.adx, i)
     /\ \A i \in 0..(Len(priceData) - 1) :
           Defined(dmiData.adx, i) =>
              \A k \in i..(Len(priceData) - 1) : Defined(dmiData.adx, k)
     /\ Defined(dmiData.adx, Len(priceData) - 1)

\* C24: every invocation of onLoadInfo made with a symbol, an expiration and a
\* supported datapoint selected makes the displayed charts start a new
\* loadData: after the n-th such invocation a n-th loadData starts, for the
\* second, third and every later invocation as for the first.
C24_EveryLoadInfoLoads ==
  \A n \in 1..MaxCalls : (loadInfoCalls = n) ~> (loadsStarted >= n)

\* C25: whenever no expirations request is outstanding, `expirations` is empty
\* or the list returned for the currently selected symbol, also when the symbol
\* was changed or the selections were cleared while a request was in flight.
C25_ExpirationsOfSelectedSymbol ==
  expirationRequests = <<>> =>
     \/ expirations = <<>>
     \/ /\ selectedSymbol # NoSelection
        /\ expirations = ExpirationOptions(ServerExpirations(selectedSymbol))

\* C26: after onClearSelections or onSymbolChange has set optionChainData to
\* null it stays null until a later onExpirationChange with a non-empty
\* expiration; whenever it is non-null its symbol and expiration are values
\* that were selected together.
C26_ChainDataOfSelection ==
  /\ cleared => optionChainData = NoData
  /\ optionChainData # NoData =>
        /\ optionChainData[1].symbol # NoSelection
        /\ optionChainData[1].expiration # NoSelection

\* C27: in container 1, after every successful load response priceData and
\* chartDates are the aggregation of that response: they have equal length and
\* are empty when the response has no usable sample, never the series of an
\* earlier response.
C27_AggregationOfLastResponse ==
  "container1" \in calculated =>
     LET groupedData == groupDataByDate(data)
     IN  /\ Len(priceData) = Len(dates)
         /\ dates = SortKeys(groupedData.keys)
         /\ priceData = PricesOf(groupedData, dates)

\* C28: in the swing-point scan with L = 5, any two swing points of the same
\* type are more than L indices apart, and no index is both a swing high and a
\* swing low.
C28_SwingPointsApart ==
  "container2" \in calculated =>
     /\ \A a \in 1..Len(swingPoints), b \in 1..Len(swingPoints) :
           (a < b /\ swingPoints[a].type = swingPoints[b].type) =>
              swingPoints[b].index - swingPoints[a].index > lookbackPeriod
     /\ \A a \in 1..Len(swingPoints), b \in 1..Len(swingPoints) :
           a # b => swingPoints[a].index # swingPoints[b].index
     /\ \A i \in lookbackPeriod..(Len(priceData) - lookbackPeriod - 1) :
           ~(IsSwingHigh(priceData, i) /\ IsSwingLow(priceData, i))

\* two swing lows as close as they can be, L + 1 indices apart
C28_Witness ==
  /\ "container2" \in calculated
  /\ Len(SwingLows) = 2
  /\ SwingLows[2].index - SwingLows[1].index = lookbackPeriod + 1

\* the clusters of `points` before the strength filter
Clusters(points) == ClusterLoop(points, 1, <<>>, dates)

\* the swing points that open a zone: those within tolerance of no earlier anchor
Anchors(points) ==
  LET opens[k \in 1..Len(points)] ==
        \A a \in 1..(k - 1) : opens[a] => ~NearZone(points[k], [price |-> points[a].price])
  IN  {k \in 1..Len(points) : opens[k]}

\* the anchor in whose zone the k-th point is counted: the first one within tolerance
AnchorOf(points, k) ==
  LET near == {a \in Anchors(points) :
                 a <= k /\ (a = k \/ NearZone(points[k], [price |-> points[a].price]))}
  IN  CHOOSE a \in near : \A b \in near : a <= b

TotalTouches(zones) ==
  LET total[j \in 0..Len(zones)] == IF j = 0 THEN 0 ELSE total[j - 1] + zones[j].touches
  IN  total[Len(zones)]

\* the zones are those of the anchors, in order, each counting the points
\* whose first near anchor it is; the touches add up to the number of points
CountedOnce(points) ==
  LET zones == Clusters(points)
      anchors == Anchors(points)
  IN  /\ Len(zones) = Cardinality(anchors)
      /\ TotalTouches(zones) = Len(points)
      /\ \A j \in 1..Len(zones) :
            LET a == CHOOSE x \in anchors : Cardinality({y \in anchors : y < x}) = j - 1
                counted == {k \in 1..Len(points) : AnchorOf(points, k) = a}
            IN  /\ zones[j].price = points[a].price
                /\ zones[j].touches = Cardinality(counted)
                /\ zones[j].touches >= 1
                /\ zones[j].startDate <= zones[j].endDate

\* C29: before the strength filter every swing low is counted in exactly one
\* demand zone, the first zone in creation order whose anchor is within
\* tolerance, so the touches of the demand zones add up to the number of swing
\* lows; likewise for swing highs and supply zones; every zone has touches >= 1
\* and startDate <= endDate.
C29_EachPointCountedOnce ==
  "container2" \in calculated => CountedOnce(SwingLows) /\ CountedOnce(SwingHighs)

\* three swing lows, the last within tolerance of both zones opened before it
\* and counted in the first
C29_Witness ==
  /\ "container2" \in calculated
  /\ Len(SwingLows) = 3
  /\ Len(Clusters(SwingLows)) = 2
  /\ NearZone(SwingLows[3], Clusters(SwingLows)[1])
  /\ NearZone(SwingLows[3], Clusters(SwingLows)[2])
  /\ Clusters(SwingLows)[1].touches = 2
  /\ Clusters(SwingLows)[2].touches = 1

\* sequences handed to the two regressions besides the fitted windows: up to
\* three values, finite or not
RegressionInputs == SeqsUpTo({Zero, Num(1), Num(3), NaN, PosInf}, 3)

\* the two regressions agree on `values`, whose denominator is positive from
\* two values on
SameRegression(values) ==
  /\ linearRegression(values) = Container2LinearRegression(values)
  /\ Len(values) >= 2 => JGt(RegDenominator(values), Zero)

\* C30: the guarded linearRegression of ChartTtmSqueezeComponent and the
\* unguarded one of ChartPriceContainer2Component return the same value for
\* every input sequence: for n >= 2 the denominator n * sumX2 - sumX^2 is
\* strictly positive, so the fallback is never taken.
C30_RegressionsAgree ==
  ("ttm" \in calculated /\ "container2" \in calculated) =>
     /\ \A values \in RegressionInputs : SameRegression(values)
     /\ \A i \in (period - 1)..(Len(priceData) - 1) :
           /\ SameRegression(ValSeries(priceData, period, i))
           /\ At(ttmSqueezeData.momentum, i) =
                Container2LinearRegression(ValSeries(priceData, period, i))
           /\ At(c2TtmSqueezeData.momentum, i) =
                linearRegression(ValSeries(priceData, period, i))

\* both components have fitted a window of two or more base values that do not
\* lie on a level line
C30_Witness ==
  /\ "ttm" \in calculated /\ "container2" \in calculated
  /\ \E i \in (period - 1)..(Len(priceData) - 1) :
        LET values == ValSeries(priceData, period, i)
        IN  /\ Len(values) >= 2
            /\ values[1] # values[Len(values)]
            /\ Defined(ttmSqueezeData.momentum, i)
            /\ At(ttmSqueezeData.momentum, i) = At(c2TtmSqueezeData.momentum, i)
====
